---------------------------- MODULE Spec2Model ----------------------------
(***************************************************************************)
(* A model of python-lua, the bridge between Python (the host) and Lua     *)
(* (the embedded runtime): src/function.c (the Lua and Function types) and *)
(* src/table.c (the Table and TableIter types).                            *)
(*                                                                         *)
(* The Lua C API is modelled at the level of its stack: a record S holds   *)
(* the value stack, the registry's reference table, the heap of tables,    *)
(* the userdata records and the globals; every lua_* and Py* call of the   *)
(* source is an operator from S to S, and a handler of the source is the   *)
(* composition of the calls it makes, in the order it makes them.          *)
(*                                                                         *)
(* Values are pairs <<tag, n>>.                                            *)
(*   Lua:  <<"nil",0>>  <<"boolean",b>>  <<"int",n>>  <<"float",k>> (k/2)  *)
(*         <<"string",i>>  <<"table",t>>  <<"function",c>>  <<"userdata",u>>*)
(*   host: <<"None",0>>  <<"bool",b>>  <<"int",n>>  <<"float",k>> (k/2)    *)
(*         <<"str",i>>  <<"Table",ref>>  <<"Function",ref>>  <<"obj",o>>   *)
(* A Table or Function proxy is named by the registry reference it owns.   *)
(***************************************************************************)
EXTENDS Integers, Sequences, FiniteSets, TLC

VARIABLES
    stack,          \* lua_State: the value stack, bottom first
    registry,       \* LUA_REGISTRYINDEX: the references pinned by luaL_ref after construction
    tables,         \* the heap of Lua tables: tables[t] = [meta, data]
    userdata,       \* the UserdataData records: userdata[u] = [target, prev, next]
    first_userdata, \* Lua.first_userdata: head of the list of records, 0 for NULL
    globals,        \* the Lua globals: x, the libraries (env), and the flags of Lua()
    iters,          \* the TableIter objects: iters[i] = [target, is_ipairs, current, icurrent]
    aborted,        \* the process was aborted by Lua's panic handler
    heap,           \* the host's objects: heap[o] = [items, attrs]
    last,           \* the last host call: what was asked and what came back
    mem             \* the Lua object, its proxies and its userdata as objects that
                    \* are made and freed: reference counts, the registry's free
                    \* list, what the collectors have done

vars == <<stack, registry, tables, userdata, first_userdata, globals, iters, aborted,
          heap, last, mem>>

---------------------------------------------------------------------------
(* Bounds of the model. *)

\* Stack slots that may stay behind on the Lua stack before the model stops adding calls.
MaxStack == 3
\* Registry references (live proxies) the model lets the host hold.
MaxRefs == 2
\* Userdata records created by Lua_push.
MaxUd == 1
\* Largest integer key used by the host and by scripts.
MaxKey == 2
\* Table iterators the host creates.
MaxIters == 1
\* Iterators that walk one table at the same time.
MaxWalkers == 2
\* Proxies that the host is given before the model stops making them.
MaxProxies == 3
\* Userdata that the scripts of the wrapper list are given.
MaxWrappers == 3
\* Bits of a lua_Integer and of the host's long long (64 in the build).
IntBits == 6

---------------------------------------------------------------------------
(* Values. *)

Nil == <<"nil", 0>>
LInt(n) == <<"int", n>>
LStr(i) == <<"string", i>>
LTable(t) == <<"table", t>>
LFunction(c) == <<"function", c>>
LUserdata(u) == <<"userdata", u>>

PyNone == <<"None", 0>>
PyInt(n) == <<"int", n>>
PyStr(i) == <<"str", i>>
PyTable(ref) == <<"Table", ref>>
PyFunction(ref) == <<"Function", ref>>
PyObj(o) == <<"obj", o>>

\* The texts of the model; a Lua string <<"string", i>> and a host str <<"str", i>>
\* carry the index of their text.
Texts == <<"boom", "syntax error", "attempt to call a non-function value",
           "attempt to index a non-table value", "error in metamethod",
           "attempt to compare", "attempt to perform arithmetic on a table value",
           "name", "_private", "",
           "attempt to call a nil value", "attempt to index a nil value",
           "_lua_x", "_x", "module 'mod' not found">>
TextId(s) == CHOOSE i \in 1..Len(Texts) : Texts[i] = s

\* Host objects that the codec cannot convert and wraps as userdata:
\*   1  a callable that raises
\*   2  the list [1, 2] (not callable, not hashable)
\*   3  the function f(*args) that returns args[0] + 1 (0 without arguments)
\*   4  the dict {"name": 21, "_private": 22, "": 2 ** 63} (63 standing for
\*      IntBits - 1: the last value is one more than a long long holds)
\*   5  an object with the attributes name = 11, _private = 12 and _lua_x = 13
HostObjs == 1..5
Hashable(v) == v[1] # "obj"

\* The objects as the host built them: items are what subscription reaches
\* (by key), attrs what attribute access reaches (by name).
HostHeap ==
    [o \in HostObjs |->
        CASE o = 2 -> [items |-> (PyInt(0) :> PyInt(1)) @@ (PyInt(1) :> PyInt(2)),
                       attrs |-> [k \in {} |-> PyNone]]
          [] o = 4 -> [items |-> (PyStr(TextId("name")) :> PyInt(21))
                                    @@ (PyStr(TextId("_private")) :> PyInt(22))
                                    @@ (PyStr(TextId("")) :> PyInt(2 ^ (IntBits - 1))),
                       attrs |-> [k \in {} |-> PyNone]]
          [] o = 5 -> [items |-> [k \in {} |-> PyNone],
                       attrs |-> ("name" :> PyInt(11)) @@ ("_private" :> PyInt(12))
                                    @@ ("_lua_x" :> PyInt(13))]
          [] OTHER -> [items |-> [k \in {} |-> PyNone], attrs |-> [k \in {} |-> PyNone]]]

\* The failure return of the host's object protocol, with the error it raises.
Raises(type, text) == [ok |-> FALSE, value |-> PyNone, type |-> type, text |-> text]
Gives(value) == [ok |-> TRUE, value |-> value, type |-> "", text |-> ""]

\* The host's answer to calling object o with the tuple args.
PyObject_CallObject(o, args) ==
    IF o = 1 THEN Raises("HostError", "raised by the host callable")
    ELSE IF o # 3 THEN Raises("TypeError", "object is not callable")
    ELSE IF args = <<>> THEN Gives(PyInt(0))
    ELSE IF args[1][1] # "int" THEN Raises("TypeError", "unsupported operand")
    ELSE Gives(PyInt(args[1][2] + 1))

\* PyObject_GetItem(target, key): target[key].
PyObject_GetItem(S, o, key) ==
    IF key \in DOMAIN S.heap[o].items THEN Gives(S.heap[o].items[key])
    ELSE IF o = 4 THEN Raises("KeyError", "key")
    ELSE IF o = 2 /\ key[1] = "int" THEN Raises("IndexError", "list index out of range")
    ELSE Raises("TypeError", "object is not subscriptable")

\* PyObject_SetItem(target, key, value): target[key] = value; a dict takes any
\* hashable key, a list the indices it has.  Gives [S, ok, type, text].
PyObject_SetItem(S, o, key, value) ==
    LET stored == [S |-> [S EXCEPT !.heap[o].items =
                                [k \in DOMAIN @ \cup {key} |->
                                    IF k = key THEN value ELSE @[k]]],
                   ok |-> TRUE, type |-> "", text |-> ""]
        failed(type, text) == [S |-> S, ok |-> FALSE, type |-> type, text |-> text]
    IN  IF o = 4 THEN IF Hashable(key) THEN stored
                      ELSE failed("TypeError", "unhashable type")
        ELSE IF o = 2 THEN IF key \in DOMAIN S.heap[o].items THEN stored
                           ELSE IF key[1] = "int"
                           THEN failed("IndexError", "list assignment index out of range")
                           ELSE failed("TypeError", "list indices must be integers")
        ELSE failed("TypeError", "object does not support item assignment")

\* The bytes of a text of the model, as a sequence of characters (those of
\* the names matter to the code).
Utf8(text) ==
    CASE text = "name" -> <<"n", "a", "m", "e">>
      [] text = "_private" -> <<"_", "p", "r", "i", "v", "a", "t", "e">>
      [] text = "" -> <<>>
      [] text = "_lua_x" -> <<"_", "l", "u", "a", "_", "x">>
      [] text = "_x" -> <<"_", "x">>
      [] OTHER -> <<"a", "t", "t", "e", "m", "p", "t">>

\* PyUnicode_AsUTF8AndSize(key, &len): the bytes and the length of a str; for
\* any other object it fails (TypeError) and leaves len as it was, 0.
PyUnicode_AsUTF8AndSize(key) ==
    IF key[1] = "str" THEN [ok |-> TRUE, str |-> Utf8(Texts[key[2]]),
                            len |-> Len(Utf8(Texts[key[2]]))]
    ELSE [ok |-> FALSE, str |-> <<>>, len |-> 0]

\* PyObject_GetAttr(target, key): the attribute of target named by the str key.
PyObject_GetAttr(S, o, key) ==
    IF key[1] # "str" THEN Raises("TypeError", "attribute name must be string")
    ELSE IF Texts[key[2]] \in DOMAIN S.heap[o].attrs
    THEN Gives(S.heap[o].attrs[Texts[key[2]]])
    ELSE Raises("AttributeError", "object has no attribute")

\* The python_binary functions (PyNumber_Add and the like) on target and rhs:
\* none of the objects of the model has a number protocol.
python_binary(operator, target, rhs) ==
    Raises("TypeError", "unsupported operand type(s)")

\* The python_unary function (PyNumber_Negative) on target.
python_unary(operator, target) ==
    Raises("TypeError", "bad operand type for unary -")

\* The value that the __index metamethod of a "default" table gives for an absent key.
DefaultVal == LInt(7)

---------------------------------------------------------------------------
(* The standard libraries of the Lua state and the flags of Lua().  A       *)
(* library table is <<"library", functions>>, each function named with its  *)
(* library; a function bound to a name of its own is <<"cfunction", name>>. *)

\* The keyword arguments of Lua(); all are false by default but python_module.
FlagNames == {"debug", "loadlib", "searchers", "doloadfile", "io", "os", "python_module"}

\* The members of os that stay when os is not asked for.
OsKept == {"os.clock", "os.date", "os.difftime", "os.setlocale", "os.time"}

\* luaL_openlibs: the bindings of the libraries that the flags are about.
\* package.loaded also has room for the modules of the host.
luaL_openlibs ==
    LET debug == <<"library", {"debug.debug", "debug.getinfo", "debug.getregistry",
                               "debug.sethook", "debug.setmetatable", "debug.traceback"}>>
        io == <<"library", {"io.close", "io.lines", "io.open", "io.popen", "io.read",
                            "io.write"}>>
        os == <<"library", OsKept \cup {"os.execute", "os.exit", "os.getenv",
                                        "os.remove", "os.rename", "os.tmpname"}>>
    IN  [debug |-> debug, io |-> io, os |-> os,
         loadfile |-> <<"cfunction", "loadfile">>,
         dofile |-> <<"cfunction", "dofile">>,
         package |-> [loadlib |-> <<"cfunction", "package.loadlib">>,
                      searchers |-> <<"library", {"searcher_preload", "searcher_Lua",
                                                  "searcher_C", "searcher_Croot"}>>,
                      loaded |-> [debug |-> debug, io |-> io, os |-> os,
                                  python |-> Nil, mod |-> Nil]]]

\* Lua_init that replaces the global os only and leaves package.loaded.os as it
\* was.  C19 must not hold of it.
Lua_init_global_os_only(flags) ==
    LET disabled(env, flag, without) == IF flags[flag] THEN env ELSE without
        debug(env) == disabled(env, "debug", [env EXCEPT !.debug = Nil,
                                                         !.package.loaded.debug = Nil])
        loadlib(env) == disabled(env, "loadlib", [env EXCEPT !.package.loadlib = Nil])
        searchers(env) == disabled(env, "searchers",
                                   [env EXCEPT !.package.searchers = <<"library", {}>>])
        doloadfile(env) == disabled(env, "doloadfile",
                                    [env EXCEPT !.loadfile = Nil, !.dofile = Nil])
        os(env) == disabled(env, "os",
                            [env EXCEPT !.os = <<"library", OsKept \cap env.os[2]>>])
        io(env) == disabled(env, "io", [env EXCEPT !.io = Nil, !.package.loaded.io = Nil])
        python(env) ==
            IF flags.python_module
            THEN [env EXCEPT !.package.loaded.python =
                                <<"library", {"python.list", "python.dict", "python.bytes"}>>]
            ELSE env
    IN  python(io(os(doloadfile(searchers(loadlib(debug(luaL_openlibs)))))))

\* Lua_init: the libraries are opened, then one script for each flag that is
\* false takes the flag's bindings away, then the module python is loaded.
\*   debug = nil package.loaded.debug = nil
\*   package.loadlib = nil
\*   package.searchers = {}
\*   loadfile = nil dofile = nil
\*   os = {clock = os.clock, date = os.date, difftime = os.difftime,
\*         setlocale = os.setlocale, time = os.time} package.loaded.os = os
\*   io = nil package.loaded.io = nil
Lua_init(flags) ==
    LET disabled(env, flag, without) == IF flags[flag] THEN env ELSE without
        debug(env) == disabled(env, "debug", [env EXCEPT !.debug = Nil,
                                                         !.package.loaded.debug = Nil])
        loadlib(env) == disabled(env, "loadlib", [env EXCEPT !.package.loadlib = Nil])
        searchers(env) == disabled(env, "searchers",
                                   [env EXCEPT !.package.searchers = <<"library", {}>>])
        doloadfile(env) == disabled(env, "doloadfile",
                                    [env EXCEPT !.loadfile = Nil, !.dofile = Nil])
        os(env) == disabled(env, "os",
                            [env EXCEPT !.os = <<"library", OsKept \cap env.os[2]>>,
                                        !.package.loaded.os =
                                            <<"library", OsKept \cap env.os[2]>>])
        io(env) == disabled(env, "io", [env EXCEPT !.io = Nil, !.package.loaded.io = Nil])
        python(env) ==
            IF flags.python_module
            THEN [env EXCEPT !.package.loaded.python =
                                <<"library", {"python.list", "python.dict", "python.bytes"}>>]
            ELSE env
    IN  python(io(os(doloadfile(searchers(loadlib(debug(luaL_openlibs)))))))

\* The calls of library functions that the scripts make: the function member of
\* the library at the path at, or the function at that path itself.
LibCalls == <<
    [at |-> <<"os">>, member |-> "os.execute"],
    [at |-> <<"os">>, member |-> "os.time"],
    [at |-> <<"package", "loaded", "os">>, member |-> "os.execute"],
    [at |-> <<"debug">>, member |-> "debug.traceback"],
    [at |-> <<"package", "loaded", "debug">>, member |-> "debug.traceback"],
    [at |-> <<"io">>, member |-> "io.open"],
    [at |-> <<"package", "loaded", "io">>, member |-> "io.open"],
    [at |-> <<"package", "searchers">>, member |-> "searcher_Lua"],
    [at |-> <<"package", "loadlib">>, member |-> ""],
    [at |-> <<"loadfile">>, member |-> ""],
    [at |-> <<"dofile">>, member |-> ""] >>

---------------------------------------------------------------------------
(* The Lua state, as the C API sees it.  panic is set when an error is     *)
(* raised outside any protected call: Lua then calls its panic handler and *)
(* aborts the process.  pyerr is the type of the host's pending error ("" *)
(* for none) and pytext its message.  status is the status of the last     *)
(* lua_load, lua_pcall or lua_next; raised, error and rets tell whether the *)
(* code run by the last lua_pcall raised an error, with which error value, *)
(* and which values it returned; frame holds the function that the last    *)
(* lua_pcall called, followed by the arguments it handed to it.  heap holds *)
(* the host's objects and calls lists, in order, the calls of the host's    *)
(* object protocol that the metamethods of the userdata made.               *)

\* The record of the current state, handed to the handlers.
L == [stack |-> stack, registry |-> registry, tables |-> tables,
      userdata |-> userdata, first_userdata |-> first_userdata,
      globals |-> globals, panic |-> FALSE, pyerr |-> "", pytext |-> "",
      status |-> "LUA_OK", raised |-> FALSE, error |-> Nil, rets |-> <<>>,
      frame |-> <<>>, heap |-> heap, calls |-> <<>>, refs |-> <<>>,
      ref |-> 0, mem |-> mem]

lua_gettop(S) == Len(S.stack)

\* An acceptable index: positive from the bottom, negative from the top.
AbsIndex(S, idx) == IF idx < 0 THEN Len(S.stack) + 1 + idx ELSE idx

ValueAt(S, idx) == S.stack[AbsIndex(S, idx)]

PushValue(S, v) == [S EXCEPT !.stack = Append(@, v)]

lua_pushnil(S) == PushValue(S, Nil)

lua_pushinteger(S, n) == PushValue(S, LInt(n))

lua_pushvalue(S, idx) == PushValue(S, ValueAt(S, idx))

lua_pop(S, n) == [S EXCEPT !.stack = SubSeq(@, 1, Len(@) - n)]

\* lua_settop: any index, 0 included; slots added are nil.
lua_settop(S, idx) ==
    LET n == IF idx < 0 THEN Len(S.stack) + 1 + idx ELSE idx
    IN  [S EXCEPT !.stack = [i \in 1..n |-> IF i <= Len(@) THEN @[i] ELSE Nil]]

\* lua_rawgeti(state, LUA_REGISTRYINDEX, id): nil when nothing is pinned at id.
lua_rawgeti_registry(S, id) ==
    PushValue(S, IF id \in DOMAIN S.registry THEN S.registry[id] ELSE Nil)

\* A registry slot that luaL_unref has freed: it holds the next free slot.
FreeSlot(next) == <<"free", next>>

\* luaL_ref that takes the first free slot and leaves it on the free list: the
\* next luaL_ref hands the same reference out again.  C22 must not hold of it.
luaL_ref_stale(S) ==
    LET value == S.stack[Len(S.stack)]
        ref == IF S.mem.freelist # 0 THEN S.mem.freelist ELSE Len(S.registry) + 1
    IN  [S EXCEPT !.registry = IF ref <= Len(@) THEN [@ EXCEPT ![ref] = value]
                               ELSE Append(@, value),
                  !.stack = SubSeq(@, 1, Len(@) - 1),
                  !.ref = ref]

\* luaL_ref(state, LUA_REGISTRYINDEX): pops the top and pins it, in the slot
\* that was freed last if there is one, else in a new slot; ref is the new
\* reference.
luaL_ref(S) ==
    LET value == S.stack[Len(S.stack)]
        ref == IF S.mem.freelist # 0 THEN S.mem.freelist ELSE Len(S.registry) + 1
    IN  [S EXCEPT !.registry = IF ref <= Len(@) THEN [@ EXCEPT ![ref] = value]
                               ELSE Append(@, value),
                  !.mem.freelist = IF @ # 0 THEN S.registry[@][2] ELSE 0,
                  !.stack = SubSeq(@, 1, Len(@) - 1),
                  !.ref = ref]

\* luaL_unref(state, LUA_REGISTRYINDEX, ref): the slot goes to the head of the
\* free list.
luaL_unref(S, ref) ==
    [S EXCEPT !.registry[ref] = FreeSlot(S.mem.freelist),
              !.mem.freelist = ref]

\* An error raised by the runtime while no lua_pcall is active.
Panic(S) == [S EXCEPT !.panic = TRUE]

---------------------------------------------------------------------------
(* Tables.  data maps the keys that are present to their (non-nil) values; *)
(* meta is "none" (no metatable), "default" (an __index function that      *)
(* gives DefaultVal for an absent key), "error" (__index, __newindex and   *)
(* __len raise) or "set" (the table is a set of its keys: __eq, __le and   *)
(* __lt compare the key sets, every other binary metamethod gives its left *)
(* operand).                                                               *)

EmptyData == [k \in {} |-> Nil]

RawGet(t, k) == IF k \in DOMAIN t.data THEN t.data[k] ELSE Nil

RawSet(t, k, v) ==
    IF v = Nil
    THEN [t EXCEPT !.data = [x \in (DOMAIN t.data) \ {k} |-> t.data[x]]]
    ELSE [t EXCEPT !.data = [x \in (DOMAIN t.data) \cup {k} |->
                                 IF x = k THEN v ELSE t.data[x]]]

\* lua_rawgeti(state, idx, i)
lua_rawgeti(S, idx, i) ==
    PushValue(S, RawGet(S.tables[ValueAt(S, idx)[2]], LInt(i)))

\* The lookup t[k] as Lua does it: the raw value, else the __index metamethod.
\* Gives [raise, value].
Index(t, k) ==
    LET raw == RawGet(t, k)
    IN  IF raw # Nil \/ t.meta \in {"none", "set"} THEN [raise |-> FALSE, value |-> raw]
        ELSE IF t.meta = "default" THEN [raise |-> FALSE, value |-> DefaultVal]
        ELSE [raise |-> TRUE, value |-> Nil]

\* lua_gettable(state, idx): the key on top is replaced by t[key].
lua_gettable(S, idx) ==
    LET t == S.tables[ValueAt(S, idx)[2]]
        r == Index(t, ValueAt(S, -1))
    IN  IF r.raise THEN Panic(S)
        ELSE PushValue(lua_pop(S, 1), r.value)

\* lua_geti(state, idx, i): pushes t[i].
lua_geti(S, idx, i) ==
    LET t == S.tables[ValueAt(S, idx)[2]]
        r == Index(t, LInt(i))
    IN  IF r.raise THEN Panic(S)
        ELSE PushValue(S, r.value)

\* The assignment t[k] = v as Lua does it: a present key is overwritten; an absent
\* one goes to __newindex when there is one, else it is stored, and storing under
\* a nil key is an error ("index is nil").  Gives [raise, table].
NewIndex(t, k, v) ==
    IF RawGet(t, k) # Nil THEN [raise |-> FALSE, table |-> RawSet(t, k, v)]
    ELSE IF t.meta = "error" THEN [raise |-> TRUE, table |-> t]
    ELSE IF k = Nil THEN [raise |-> TRUE, table |-> t]
    ELSE [raise |-> FALSE, table |-> RawSet(t, k, v)]

\* lua_settable(state, idx): t[key] = value, with the key below the value on top; pops both.
lua_settable(S, idx) ==
    LET tid == ValueAt(S, idx)[2]
        r == NewIndex(S.tables[tid], ValueAt(S, -2), ValueAt(S, -1))
    IN  IF r.raise THEN Panic(S)
        ELSE lua_pop([S EXCEPT !.tables[tid] = r.table], 2)

\* lua_seti(state, idx, i): t[i] = the value on top; pops it.
lua_seti(S, idx, i) ==
    LET tid == ValueAt(S, idx)[2]
        r == NewIndex(S.tables[tid], LInt(i), ValueAt(S, -1))
    IN  IF r.raise THEN Panic(S)
        ELSE lua_pop([S EXCEPT !.tables[tid] = r.table], 1)

\* The borders of a table: the values that the length operator may give.  With
\* holes there are several and Lua promises only one of them.
Borders(t) ==
    {n \in 0..MaxKey + 1 :
        /\ (n = 0 \/ RawGet(t, LInt(n)) # Nil)
        /\ RawGet(t, LInt(n + 1)) = Nil}

\* lua_len(state, idx): pushes #t, honouring __len; border is the border that
\* the runtime picks.
lua_len(S, idx, border) ==
    LET t == S.tables[ValueAt(S, idx)[2]]
    IN  IF t.meta = "error" THEN Panic(S)
        ELSE lua_pushinteger(S, border)

\* The traversal order of a table: the integer keys in order, then the userdata
\* keys in order of creation.  (Lua fixes no order; it keeps the one it has
\* while the table is not assigned to.)
KeyBefore(a, b) ==
    \/ a[1] = "int" /\ b[1] # "int"
    \/ a[1] = b[1] /\ a[2] < b[2]

\* The keys that follow k in the traversal (all keys for k = nil).
KeysAfter(t, k) == {x \in DOMAIN t.data : k = Nil \/ KeyBefore(k, x)}

FirstKey(keys) == CHOOSE x \in keys : \A y \in keys \ {x} : KeyBefore(x, y)

\* lua_next(state, idx): pops the key; pushes the next key and its value
\* (status "more"), or pushes nothing (status "none").  A key that the table
\* never held is an error ("invalid key to 'next'"); an integer key that was
\* removed during the traversal still marks its place.
lua_next(S, idx) ==
    LET t == S.tables[ValueAt(S, idx)[2]]
        k == ValueAt(S, -1)
        S1 == lua_pop(S, 1)
        rest == KeysAfter(t, k)
        n == FirstKey(rest)
    IN  IF k[1] = "userdata" /\ k \notin DOMAIN t.data
        THEN [Panic(S) EXCEPT !.status = "none"]
        ELSE IF rest = {} THEN [S1 EXCEPT !.status = "none"]
        ELSE [PushValue(PushValue(S1, n), t.data[n]) EXCEPT !.status = "more"]

---------------------------------------------------------------------------
(* The value codec: Lua_push (host to Lua) and Lua_to_python (Lua to host). *)

\* A null PyObject pointer: the absent value argument of Table_setitem
\* (del t[key]), the target of a userdata that gave its reference back.
NoValue == <<"NULL", 0>>

\* make_userdata: a new record at the head of the list, holding the host object.
make_userdata(S, target) ==
    LET u == Len(S.userdata) + 1
        data == [target |-> target, prev |-> 0, next |-> S.first_userdata]
        linked == IF data.next # 0
                  THEN [S.userdata EXCEPT ![data.next].prev = u]
                  ELSE S.userdata
    IN  PushValue([S EXCEPT !.userdata = Append(linked, data),
                            !.first_userdata = u],
                  LUserdata(u))

\* A new Table or Function object of the host, with the one reference that
\* its maker returns; lua = 1 is the pointer to the Lua object, 0 is NULL.
\* held: a variable of the host refers to the object; dict: the object's
\* __dict__ refers to the object itself; tracked: PyObject_GC_Track was called.
NewProxy(type, id, tracked) ==
    [type |-> type, lua |-> 1, id |-> id, ob_refcnt |-> 1, held |-> TRUE,
     dict |-> FALSE, tracked |-> tracked, state |-> "live", unrefs |-> 0]

\* Table_create / setup_table: PyObject_GC_New, self->lua = context with
\* Py_INCREF, self->id = luaL_ref of the value on top of the stack.  The
\* object is not tracked.  The host's handle on the proxy is its reference.
Table_create(S) ==
    LET S1 == luaL_ref(S)
    IN  [S1 EXCEPT !.mem.lua.ob_refcnt = @ + 1,
                   !.mem.objects = Append(@, NewProxy("Table", S1.ref, FALSE))]

\* Function_create that borrows the Lua object: no Py_INCREF(self->lua).  C24
\* must not hold of it.
Function_create_borrowed(S) ==
    LET S1 == luaL_ref(S)
    IN  [S1 EXCEPT !.mem.objects = Append(@, NewProxy("Function", S1.ref, TRUE))]

\* Function_create: the same, and PyObject_GC_Track(self).
Function_create(S) ==
    LET S1 == luaL_ref(S)
    IN  [S1 EXCEPT !.mem.lua.ob_refcnt = @ + 1,
                   !.mem.objects = Append(@, NewProxy("Function", S1.ref, TRUE))]

\* The range of long long and of lua_Integer.
LLONG_MAX == 2 ^ (IntBits - 1) - 1
LLONG_MIN == -(2 ^ (IntBits - 1))

\* PyLong_AsLongLong: the value of a host integer, or -1 with OverflowError
\* raised when the integer does not fit.
PyLong_AsLongLong(n) ==
    IF n >= LLONG_MIN /\ n <= LLONG_MAX THEN [value |-> n, overflow |-> FALSE]
    ELSE [value |-> -1, overflow |-> TRUE]

\* Lua_push that looks at the owner of a proxy: a proxy of another instance is
\* wrapped like any other host object.  C21 as amended must not hold of it.
Lua_push_owned(S, obj) ==
    IF obj = PyNone THEN lua_pushnil(S)
    ELSE IF obj[1] \in {"Table", "Function"} /\ Len(obj) = 2
    THEN lua_rawgeti_registry(S, obj[2])
    ELSE IF obj[1] = "bool" THEN PushValue(S, <<"boolean", obj[2]>>)
    ELSE IF obj[1] = "int"
    THEN LET r == PyLong_AsLongLong(obj[2])
         IN  lua_pushinteger(IF r.overflow
                             THEN [S EXCEPT !.pyerr = "OverflowError",
                                            !.pytext = "int too big to convert"]
                             ELSE S,
                             r.value)
    ELSE IF obj[1] = "str" THEN PushValue(S, LStr(obj[2]))
    ELSE IF obj[1] = "float" THEN PushValue(S, <<"float", obj[2]>>)
    ELSE make_userdata(S, obj)

\* Lua_push: load a host value onto the Lua stack.  The Table and Function
\* branches look at the type of obj only: obj->id is read in this instance's
\* registry whichever instance made obj.
Lua_push(S, obj) ==
    IF obj = PyNone THEN lua_pushnil(S)
    ELSE IF obj[1] = "Table" THEN lua_rawgeti_registry(S, obj[2])
    ELSE IF obj[1] = "Function" THEN lua_rawgeti_registry(S, obj[2])
    ELSE IF obj[1] = "bool" THEN PushValue(S, <<"boolean", obj[2]>>)
    ELSE IF obj[1] = "int"
    THEN LET r == PyLong_AsLongLong(obj[2])
         IN  lua_pushinteger(IF r.overflow
                             THEN [S EXCEPT !.pyerr = "OverflowError",
                                            !.pytext = "int too big to convert"]
                             ELSE S,
                             r.value)
    ELSE IF obj[1] = "str" THEN PushValue(S, LStr(obj[2]))
    ELSE IF obj[1] = "float" THEN PushValue(S, <<"float", obj[2]>>)
    ELSE make_userdata(S, obj)

\* lua_tointeger of a number: the integer that a float equals when it has an
\* integral value in the range of lua_Integer, else 0 (the conversion fails).
lua_tointeger(v) ==
    IF v[1] = "int" THEN v[2]
    ELSE IF v[2] % 2 = 0 /\ v[2] \div 2 >= LLONG_MIN /\ v[2] \div 2 <= LLONG_MAX
    THEN v[2] \div 2
    ELSE 0

\* Lua_to_python that copies a table: the proxy it gives refers to a new table
\* with the same contents.  C12 must not hold of it.
Lua_to_python_copy(S, idx) ==
    LET v == ValueAt(S, idx)
        type == v[1]
    IN  CASE type = "nil" -> [S |-> S, ret |-> PyNone]
          [] type = "boolean" -> [S |-> S, ret |-> <<"bool", v[2]>>]
          [] type = "int" -> [S |-> S, ret |-> PyInt(v[2])]
          [] type = "float" ->
                [S |-> S, ret |-> IF lua_tointeger(v) * 2 = v[2]
                                  THEN PyInt(lua_tointeger(v))
                                  ELSE <<"float", v[2]>>]
          [] type = "string" -> [S |-> S, ret |-> PyStr(v[2])]
          [] type = "table" ->
                LET S0 == [S EXCEPT !.tables = Append(@, S.tables[v[2]])]
                    S1 == Table_create(PushValue(S0, LTable(Len(S0.tables))))
                IN  [S |-> S1, ret |-> PyTable(S1.ref)]
          [] type = "function" ->
                LET S1 == Function_create(lua_pushvalue(S, idx))
                IN  [S |-> S1, ret |-> PyFunction(S1.ref)]
          [] type = "userdata" -> [S |-> S, ret |-> S.userdata[v[2]].target]

\* Lua_to_python: load the value at idx into the host.  Gives [S, ret]: a table
\* or a function pins a new reference.
Lua_to_python(S, idx) ==
    LET v == ValueAt(S, idx)
        type == v[1]
    IN  CASE type = "nil" -> [S |-> S, ret |-> PyNone]
          [] type = "boolean" -> [S |-> S, ret |-> <<"bool", v[2]>>]
          [] type = "int" -> [S |-> S, ret |-> PyInt(v[2])]
          [] type = "float" ->
                \* If this is exactly an integer, return it as an integer.
                [S |-> S, ret |-> IF lua_tointeger(v) * 2 = v[2]
                                  THEN PyInt(lua_tointeger(v))
                                  ELSE <<"float", v[2]>>]
          [] type = "string" -> [S |-> S, ret |-> PyStr(v[2])]
          [] type = "table" ->
                LET S1 == Table_create(lua_pushvalue(S, idx))
                IN  [S |-> S1, ret |-> PyTable(S1.ref)]
          [] type = "function" ->
                LET S1 == Function_create(lua_pushvalue(S, idx))
                IN  [S |-> S1, ret |-> PyFunction(S1.ref)]
          [] type = "userdata" ->
                \* ret = data->target; Py_INCREF(ret): a null target is read through.
                IF S.userdata[v[2]].target = NoValue THEN [S |-> Panic(S), ret |-> PyNone]
                ELSE [S |-> S, ret |-> S.userdata[v[2]].target]

\* lua_tostring(state, -1) of an error value, as the text it denotes.
lua_tostring(S, idx) == Texts[ValueAt(S, idx)[2]]

---------------------------------------------------------------------------
(* Lua code.  A chunk or function is one of the bodies below; the Lua      *)
(* value <<"function", c>> is a closure of Chunks[c].                      *)
(*   syntax        text that does not compile                              *)
(*   return n      return 10, 20, ... (n values)                           *)
(*   error         error("boom")                                           *)
(*   callx         x() return 10                                           *)
(*   callx_error   x() error("boom")                                       *)
(*   getx          return x                                                *)
(*   mkecho        return function(...) return ... end                     *)
(*   mkerror       return function() error("boom") end                     *)
(*   newtable m    return setmetatable({}, m)   (m: 0 none, 1 default,     *)
(*                 2 error)                                                *)
(*   xset k v      x[k] = v    (v = 0 for nil)                             *)
(*   xget k        return x[k]                                             *)
(*   echo          the body of mkecho's function                           *)
(*   newset        return setmetatable({}, Set)   (a "set" table)          *)
(*   operator k    function(a, b) return a <op> b end, for Operators[k]:   *)
(*                 the functions that Lua_init builds for lua_operator     *)
(*   hcall n       return x(10, ..., 10 * n), and return x(math.maxinteger)*)
(*   hget k        return x[key], for the key ScriptKeys[k]                *)
(*   hset k        x[key] = 10, for the key ScriptKeys[k]                  *)
(*   hadd          return x + 10                                           *)
(*   hlt           return x < 10                                           *)
(*   hneg          return -x                                               *)
(*   weaken        wk = setmetatable({}, {__mode = "k"})                   *)
(*                 if x ~= nil then wk[x] = true end                       *)
(*   wknext        return (next(wk or {}))                                 *)
(*   libcall k     a call of the library function LibCalls[k], such as     *)
(*                 os.execute("true") or require("os").execute("true")     *)
(*   require       return require("mod")                                   *)

\* enum Operator: the binary operators that have a Lua function.
Operators == <<"ADD", "SUB", "MUL", "DIV", "MOD", "POW", "IDIV", "AND", "OR", "XOR",
               "LSHIFT", "RSHIFT", "CONCAT", "EQ", "LT", "LE">>

Chunks == <<
    [kind |-> "syntax", n |-> 0, v |-> 0],
    [kind |-> "return", n |-> 0, v |-> 0],
    [kind |-> "return", n |-> 1, v |-> 0],
    [kind |-> "return", n |-> 2, v |-> 0],
    [kind |-> "return", n |-> 3, v |-> 0],
    [kind |-> "error", n |-> 0, v |-> 0],
    [kind |-> "callx", n |-> 0, v |-> 0],
    [kind |-> "callx_error", n |-> 0, v |-> 0],
    [kind |-> "getx", n |-> 0, v |-> 0],
    [kind |-> "mkecho", n |-> 0, v |-> 0],
    [kind |-> "mkerror", n |-> 0, v |-> 0],
    [kind |-> "newtable", n |-> 0, v |-> 0],
    [kind |-> "newtable", n |-> 1, v |-> 0],
    [kind |-> "newtable", n |-> 2, v |-> 0],
    [kind |-> "xset", n |-> 1, v |-> 20],
    [kind |-> "xset", n |-> 1, v |-> 0],
    [kind |-> "xget", n |-> 1, v |-> 0],
    [kind |-> "echo", n |-> 0, v |-> 0],
    [kind |-> "newset", n |-> 0, v |-> 0] >>
    \o [k \in 1..Len(Operators) |-> [kind |-> "operator", n |-> k, v |-> 0]]
    \o << [kind |-> "hcall", n |-> 0, v |-> 0],
          [kind |-> "hcall", n |-> 1, v |-> 0],
          [kind |-> "hcall", n |-> 2, v |-> 0],
          [kind |-> "hcall", n |-> 1, v |-> 1],
          [kind |-> "hget", n |-> 1, v |-> 0],
          [kind |-> "hget", n |-> 2, v |-> 0],
          [kind |-> "hget", n |-> 3, v |-> 0],
          [kind |-> "hget", n |-> 4, v |-> 0],
          [kind |-> "hset", n |-> 1, v |-> 0],
          [kind |-> "hset", n |-> 2, v |-> 0],
          [kind |-> "hset", n |-> 3, v |-> 0],
          [kind |-> "hset", n |-> 4, v |-> 0],
          [kind |-> "hadd", n |-> 0, v |-> 0],
          [kind |-> "hlt", n |-> 0, v |-> 0],
          [kind |-> "hneg", n |-> 0, v |-> 0],
          [kind |-> "weaken", n |-> 0, v |-> 0],
          [kind |-> "wknext", n |-> 0, v |-> 0] >>
    \o [k \in 1..Len(LibCalls) |-> [kind |-> "libcall", n |-> k, v |-> 0]]
    \o << [kind |-> "require", n |-> 0, v |-> 0] >>

ChunksOf(kinds) == {c \in DOMAIN Chunks : Chunks[c].kind \in kinds}
ChunkId(kind) == CHOOSE c \in DOMAIN Chunks : Chunks[c].kind = kind

Metas == <<"none", "default", "error">>

\* lua_operator[operator]: the Lua function cached for the operator.
lua_operator(operator) ==
    LFunction(CHOOSE c \in DOMAIN Chunks :
                  Chunks[c].kind = "operator" /\ Operators[Chunks[c].n] = operator)

LBool(b) == <<"boolean", b>>

\* A number as twice its value: a float <<"float", n>> is n / 2.
NumVal(v) == IF v[1] = "int" THEN 2 * v[2] ELSE v[2]
IsNumber(v) == v[1] \in {"int", "float"}

\* v is a table with the "set" metatable; the set it stands for.
HasSet(S, v) == v[1] = "table" /\ S.tables[v[2]].meta = "set"
KeySet(S, v) == DOMAIN S.tables[v[2]].data

\* a == b in Lua: primitive equality, else the __eq metamethod of two tables.
LuaEq(S, a, b) ==
    IF a = b \/ (IsNumber(a) /\ IsNumber(b) /\ NumVal(a) = NumVal(b)) THEN TRUE
    ELSE IF a[1] = "table" /\ b[1] = "table" /\ (HasSet(S, a) \/ HasSet(S, b))
    THEN KeySet(S, a) = KeySet(S, b)
    ELSE FALSE

\* a < b and a <= b in Lua.  Gives [ok, value, text]: numbers compare by
\* value; otherwise the __lt or __le metamethod of either operand is called,
\* which fails on an operand that is no table; without a metamethod the
\* comparison is an error.
LuaLess(S, a, b, strict) ==
    IF IsNumber(a) /\ IsNumber(b)
    THEN [ok |-> TRUE, text |-> "",
          value |-> IF strict THEN NumVal(a) < NumVal(b) ELSE NumVal(a) <= NumVal(b)]
    ELSE IF HasSet(S, a) \/ HasSet(S, b)
    THEN IF a[1] = "table" /\ b[1] = "table"
         THEN [ok |-> TRUE, text |-> "",
               value |-> /\ KeySet(S, a) \subseteq KeySet(S, b)
                         /\ (strict => KeySet(S, a) # KeySet(S, b))]
         ELSE [ok |-> FALSE, text |-> "error in metamethod", value |-> FALSE]
    ELSE [ok |-> FALSE, text |-> "attempt to compare", value |-> FALSE]

\* a <op> b in Lua for an arithmetic, bitwise, shift or concatenation operator
\* with a table among the operands (the host always passes its table): the
\* metamethod of a "set" gives its left operand; without a metamethod the
\* operation is an error.  Gives [ok, value, text].
LuaArith(S, a, b) ==
    IF HasSet(S, a) \/ HasSet(S, b) THEN [ok |-> TRUE, text |-> "", value |-> a]
    ELSE [ok |-> FALSE, text |-> "attempt to perform arithmetic on a table value",
          value |-> Nil]

\* The body of the function of an operator, run on a and b.
LuaOperator(S, operator, a, b) ==
    CASE operator = "EQ" -> [ok |-> TRUE, text |-> "", value |-> LBool(LuaEq(S, a, b))]
      [] operator \in {"LT", "LE"} ->
            LET r == LuaLess(S, a, b, operator = "LT")
            IN  [ok |-> r.ok, text |-> r.text, value |-> LBool(r.value)]
      [] OTHER -> LuaArith(S, a, b)

ReturnValues(n) == [i \in 1..n |-> LInt(10 * i)]

\* The results of decoding the stack slots idxs in order.  Gives [S, vals].
RECURSIVE DecodeSlots(_, _, _)
DecodeSlots(S, idxs, vals) ==
    IF idxs = <<>> THEN [S |-> S, vals |-> vals]
    ELSE LET r == Lua_to_python(S, Head(idxs))
         IN  DecodeSlots(r.S, Tail(idxs), Append(vals, r.ret))

\* PyErr_SetString / PyErr_Format
PyErr_Format(S, type, text) == [S EXCEPT !.pyerr = type, !.pytext = text]

\* PyErr_Clear
PyErr_Clear(S) == [S EXCEPT !.pyerr = "", !.pytext = ""]

\* The stack slots of the arguments of a call, last argument first.  C16 must
\* not hold of it.
ArgumentSlots_reversed(nargs) == [i \in 1..nargs - 1 |-> nargs + 1 - i]

\* The stack slots that the CALL case decodes into the tuple args, in the order
\* of the tuple: for (i = 2; i <= nargs; ++i).
ArgumentSlots(nargs) == [i \in 1..nargs - 1 |-> i + 1]

\* The INDEX case falls back to attribute access when the key is a text that
\* is not empty and does not begin with an underscore.
AttemptGetattr(key) ==
    /\ PyUnicode_AsUTF8AndSize(key).len > 0
    /\ PyUnicode_AsUTF8AndSize(key).str[1] # "_"

\* metamethod: the callback behind every metamethod of a userdata.  argv is the
\* frame of the call: the userdata, then the operands.  Gives [S, results].
\* The cases are those of __add (a python_binary operator), __unm (the
\* python_unary operator), __lt, __index, __newindex and __call.  refs lists
\* what the callback does with its operands, by stack slot, in order:
\* <<"Lua_to_python", i>> takes a new reference to operand i, <<"use", i>>
\* hands the operand to the host's object protocol, <<"Py_DECREF", i>> gives
\* the reference back.
metamethod(S, method_index, argv) ==
    LET nargs == Len(argv)
        log(S1, entry) == [S1 EXCEPT !.calls = Append(@, entry)]
        ref(S1, events) == [S1 EXCEPT !.refs = @ \o events]
        taken(v) == [i \in 1..Len(v) |-> <<"Lua_to_python", i>>]
        used(v) == [i \in 1..Len(v) |-> <<"use", i>>]
        released(v) == [i \in 1..Len(v) |-> <<"Py_DECREF", i>>]
        \* return 0
        none(S1) == [how |-> "return 0", S |-> S1, value |-> PyNone]
        raised(S1, r) == none(PyErr_Format(S1, r.type, r.text))
        \* Lua_push(lua, value); return 1
        push(S1, value) == [how |-> "push", S |-> S1, value |-> value]
        \* Lua_push(lua, NULL) reads the type of a null object: the process dies.
        push_null(S1) == [how |-> "push NULL", S |-> S1, value |-> PyNone]
        \* python_binary, CALL: the result is checked before it is pushed.
        checked(S1, r) == IF ~r.ok THEN raised(S1, r) ELSE push(S1, r.value)
        \* LT: PyObject_RichCompare of an object of the model and a number
        \* raises, and the result is pushed unchecked.
        compared(S1, r) ==
            IF ~r.ok THEN push_null(PyErr_Format(S1, r.type, r.text))
            ELSE push(ref(S1, <<<<"Py_DECREF", 1>>, <<"Py_DECREF", 2>>>>), r.value)
        \* python_unary: a NULL result returns before Py_DECREF(target).
        negated(S1, r) ==
            IF ~r.ok THEN raised(S1, r)
            ELSE push(ref(S1, <<<<"Py_DECREF", 1>>>>), r.value)
        \* INDEX
        \* INDEX: Py_DECREF(target) comes right after PyObject_GetItem, before
        \* the attempt at PyObject_GetAttr(target, key).
        attribute(S1, value) ==
            IF value.ok THEN push(ref(PyErr_Clear(S1), <<<<"Py_DECREF", 2>>>>), value.value)
            ELSE none(ref(PyErr_Clear(S1), <<<<"Py_DECREF", 2>>>>))
        item(S1, target, key, value) ==
            IF value.ok THEN push(ref(S1, <<<<"Py_DECREF", 2>>>>), value.value)
            ELSE IF AttemptGetattr(key)
            THEN attribute(ref(log(S1, <<"PyObject_GetAttr", target, key>>),
                               <<<<"use", 1>>, <<"use", 2>>>>),
                           PyObject_GetAttr(S1, target[2], key))
            ELSE none(ref(PyErr_Clear(S1), <<<<"Py_DECREF", 2>>>>))
        \* NEWINDEX
        stored(r) == IF ~r.ok THEN raised(r.S, r) ELSE none(r.S)
        found(S1, v) ==
            CASE method_index = "ADD" ->
                    checked(ref(log(S1, <<"python_binary", v[1], v[2]>>),
                                taken(v) \o used(v) \o released(v)),
                            python_binary(method_index, v[1], v[2]))
              [] method_index = "NEG" ->
                    negated(ref(log(S1, <<"python_unary", v[1]>>), taken(v) \o used(v)),
                            python_unary(method_index, v[1]))
              [] method_index = "LT" ->
                    compared(ref(log(S1, <<"PyObject_RichCompare", v[1], v[2]>>),
                                 taken(v) \o used(v)),
                             Raises("TypeError", "'<' not supported"))
              [] method_index = "INDEX" ->
                    item(ref(PyErr_Clear(log(S1, <<"PyObject_GetItem", v[1], v[2]>>)),
                             taken(v) \o used(v) \o <<<<"Py_DECREF", 1>>>>),
                         v[1], v[2], PyObject_GetItem(S1, v[1][2], v[2]))
              [] method_index = "NEWINDEX" ->
                    stored(PyObject_SetItem(
                               ref(log(S1, <<"PyObject_SetItem", v[1], v[2], v[3]>>),
                                   taken(v) \o used(v) \o released(v)),
                               v[1][2], v[2], v[3]))
              [] method_index = "CALL" ->
                    \* Py_DECREF(args) gives back the arguments, then
                    \* Py_DECREF(target).
                    checked(ref(log(S1, <<"PyObject_CallObject", v[1], Tail(v)>>),
                                taken(v) \o used(v)
                                    \o Tail(released(v)) \o <<<<"Py_DECREF", 1>>>>),
                            PyObject_CallObject(v[1][2], Tail(v)))
        decoded(d) == found(d.S, d.vals)
        returned(r, pushed) ==
            IF r.how = "push"
            THEN [S |-> [pushed EXCEPT !.stack = S.stack], results |-> pushed.stack]
            ELSE IF r.how = "push NULL"
            THEN [S |-> [Panic(r.S) EXCEPT !.stack = S.stack], results |-> <<>>]
            ELSE [S |-> [r.S EXCEPT !.stack = S.stack], results |-> <<>>]
        finish(r) == returned(r, Lua_push([r.S EXCEPT !.stack = <<>>], r.value))
    IN  finish(decoded(DecodeSlots(
                   [S EXCEPT !.stack = argv],
                   IF method_index = "CALL" THEN <<1>> \o ArgumentSlots(nargs)
                   ELSE IF method_index = "NEG" THEN <<1>>
                   ELSE [i \in 1..nargs |-> i],
                   <<>>)))

\* A call of the global x with the arguments args.  Gives [S, ok, err, results].
CallX(S, args) ==
    LET called(r) == [S |-> r.S, ok |-> TRUE, err |-> Nil, results |-> r.results]
    IN  IF S.globals.x[1] = "userdata"
        THEN called(metamethod(S, "CALL", <<S.globals.x>> \o args))
        ELSE [S |-> S, ok |-> FALSE,
              err |-> LStr(TextId("attempt to call a non-function value")),
              results |-> <<>>]

\* The keys and the value that the scripts use on a host object.
ScriptKeys == <<LStr(TextId("name")), LStr(TextId("_private")), LStr(TextId("")), LInt(1)>>
ScriptValue == LInt(10)

\* The one value that an expression takes from the results of a metamethod.
Adjusted(results) == IF results = <<>> THEN Nil ELSE results[1]

\* lua_load_module: the name in package.loaded is bound to a new table that
\* holds the pairs of the dict, or, for another object, its attributes: those
\* whose name begins with an underscore are left out, unless the name begins
\* with _lua_, and then the pair goes under the name from its fifth byte on.
\* A pair with a None key makes lua_rawset raise, outside any protected call.
lua_load_module(S, name, o) ==
    LET skipped(bytes) == /\ Len(bytes) > 0 /\ bytes[1] = "_"
                          /\ ~(Len(bytes) >= 5
                                /\ SubSeq(bytes, 1, 5) = <<"_", "l", "u", "a", "_">>)
        byteskey(bytes) == IF Len(bytes) > 0 /\ bytes[1] = "_"
                           THEN SubSeq(bytes, 5, Len(bytes)) ELSE bytes
        dir == {a \in DOMAIN S.heap[o].attrs : ~skipped(Utf8(a))}
        key(a) == PyStr(CHOOSE i \in DOMAIN Texts : Utf8(Texts[i]) = byteskey(Utf8(a)))
        new_dict == [k \in {key(a) : a \in dir} |->
                        S.heap[o].attrs[CHOOSE a \in dir : key(a) = k]]
        dict == IF o = 4 THEN S.heap[o].items ELSE new_dict
        \* push_luatable_dict
        pushed(v) == ValueAt(Lua_push(S, v), -1)
        stored == {k \in DOMAIN dict : pushed(dict[k]) # Nil}
        data == [k \in {pushed(p) : p \in stored} |->
                    pushed(dict[CHOOSE p \in stored : pushed(p) = k])]
        failed == {v \in DOMAIN dict \cup {dict[k] : k \in DOMAIN dict} :
                        Lua_push(S, v).pyerr # ""}
        raised(S1) == IF failed = {} THEN S1
                      ELSE [S1 EXCEPT !.pyerr = "OverflowError",
                                      !.pytext = "int too big to convert"]
    IN  IF \E k \in DOMAIN dict : pushed(k) = Nil THEN Panic(S)
        ELSE raised([S EXCEPT !.tables = Append(@, [meta |-> "none", data |-> data]),
                              !.globals.env.package.loaded[name] =
                                    LTable(Len(S.tables) + 1)])

\* The run of body c with arguments args.  Gives [S, ok, rets, err].
Exec(S, c, args) ==
    LET body == Chunks[c]
        kind == body.kind
        x == S.globals.x
        fine(S1, rets) == [S |-> S1, ok |-> TRUE, rets |-> rets, err |-> Nil]
        fail(S1, text) == [S |-> S1, ok |-> FALSE, rets |-> <<>>,
                           err |-> LStr(TextId(text))]
        called(r) == IF ~r.ok THEN fail(r.S, Texts[r.err[2]])
                     ELSE IF kind = "hcall" THEN fine(r.S, r.results)
                     ELSE IF kind = "callx" THEN fine(r.S, ReturnValues(1))
                     ELSE fail(r.S, "boom")
        \* The metamethod of the host object x that the body's operation runs,
        \* and the frame of its call.
        event == CASE kind = "hget" -> "INDEX" [] kind = "hset" -> "NEWINDEX"
                   [] kind = "hadd" -> "ADD" [] kind = "hneg" -> "NEG"
                   [] OTHER -> "LT"
        \* Lua hands the operand of a unary operator to the metamethod twice.
        frame == CASE kind = "hget" -> <<x, ScriptKeys[body.n]>>
                   [] kind = "hset" -> <<x, ScriptKeys[body.n], ScriptValue>>
                   [] kind = "hneg" -> <<x, x>>
                   [] OTHER -> <<x, ScriptValue>>
        operated(r) ==
            CASE kind = "hset" -> fine(r.S, <<>>)
              [] kind = "hlt" ->
                    fine(r.S, <<LBool(Adjusted(r.results) \notin {Nil, LBool(FALSE)})>>)
              [] OTHER -> fine(r.S, <<Adjusted(r.results)>>)
        indexed(t) == IF t.raise THEN fail(S, "error in metamethod")
                      ELSE fine(S, <<t.value>>)
        assigned(t) == IF t.raise THEN fail(S, "error in metamethod")
                       ELSE fine([S EXCEPT !.tables[x[2]] = t.table], <<>>)
        computed(t, value) == IF t.ok THEN fine(S, <<value>>) ELSE fail(S, t.text)
        less(t) == computed(t, LBool(t.value))
        sum(t) == computed(t, t.value)
    IN  CASE kind = "return" -> fine(S, ReturnValues(body.n))
          [] kind = "error" -> fail(S, "boom")
          [] kind \in {"callx", "callx_error", "hcall"} ->
                called(CallX(S, IF kind # "hcall" THEN <<>>
                                ELSE IF body.v = 1 THEN <<LInt(LLONG_MAX)>>
                                ELSE ReturnValues(body.n)))
          [] kind = "require" ->
                IF S.globals.env.package.loaded.mod # Nil
                THEN fine(S, <<S.globals.env.package.loaded.mod>>)
                ELSE fail(S, "module 'mod' not found")
          [] kind = "libcall" ->
                LET path == LibCalls[body.n].at
                    env == S.globals.env
                    v == IF Len(path) = 1 THEN env[path[1]]
                         ELSE IF Len(path) = 2 THEN env[path[1]][path[2]]
                         ELSE env[path[1]][path[2]][path[3]]
                IN  IF LibCalls[body.n].member = ""
                    THEN IF v[1] = "cfunction" THEN fine(S, <<>>)
                         ELSE fail(S, "attempt to call a nil value")
                    ELSE IF v[1] # "library"
                    THEN fail(S, "attempt to index a nil value")
                    ELSE IF LibCalls[body.n].member \in v[2] THEN fine(S, <<>>)
                    ELSE fail(S, "attempt to call a nil value")
          [] kind \in {"hget", "hset", "hadd", "hlt", "hneg"} /\ x[1] = "userdata" ->
                operated(metamethod(S, event, frame))
          [] kind \in {"hget", "hset"} /\ x[1] \notin {"userdata", "table"} ->
                fail(S, "attempt to index a non-table value")
          [] kind = "hget" /\ x[1] = "table" ->
                indexed(Index(S.tables[x[2]], ScriptKeys[body.n]))
          [] kind = "hset" /\ x[1] = "table" ->
                assigned(NewIndex(S.tables[x[2]], ScriptKeys[body.n], ScriptValue))
          [] kind = "hadd" /\ x[1] = "int" -> fine(S, <<LInt(x[2] + ScriptValue[2])>>)
          [] kind = "hlt" /\ x[1] = "int" -> fine(S, <<LBool(x[2] < ScriptValue[2])>>)
          [] kind = "hneg" /\ x[1] = "int" -> fine(S, <<LInt(-x[2])>>)
          [] kind \in {"hadd", "hneg"} /\ x[1] \notin {"userdata", "int"} ->
                sum(LuaArith(S, x, ScriptValue))
          [] kind = "hlt" /\ x[1] \notin {"userdata", "int"} ->
                less(LuaLess(S, x, ScriptValue, TRUE))
          [] kind = "getx" -> fine(S, <<x>>)
          [] kind = "weaken" -> fine([S EXCEPT !.globals.wk = x], <<>>)
          [] kind = "wknext" -> fine(S, <<S.globals.wk>>)
          [] kind = "mkecho" -> fine(S, <<LFunction(ChunkId("echo"))>>)
          [] kind = "mkerror" -> fine(S, <<LFunction(ChunkId("error"))>>)
          [] kind = "echo" -> fine(S, args)
          [] kind = "newset" ->
                LET t == [meta |-> "set", data |-> EmptyData]
                    S1 == [S EXCEPT !.tables = Append(@, t)]
                IN  fine(S1, <<LTable(Len(S1.tables))>>)
          [] kind = "operator" ->
                LET a == IF Len(args) >= 1 THEN args[1] ELSE Nil
                    b == IF Len(args) >= 2 THEN args[2] ELSE Nil
                    r == LuaOperator(S, Operators[body.n], a, b)
                IN  IF r.ok THEN fine(S, <<r.value>>) ELSE fail(S, r.text)
          [] kind = "newtable" ->
                LET t == [meta |-> Metas[body.n + 1], data |-> EmptyData]
                    S1 == [S EXCEPT !.tables = Append(@, t)]
                IN  fine(S1, <<LTable(Len(S1.tables))>>)
          [] kind = "xset" ->
                IF x[1] # "table" THEN fail(S, "attempt to index a non-table value")
                ELSE LET v == IF body.v = 0 THEN Nil ELSE LInt(body.v)
                         r == NewIndex(S.tables[x[2]], LInt(body.n), v)
                     IN  IF r.raise THEN fail(S, "error in metamethod")
                         ELSE fine([S EXCEPT !.tables[x[2]] = r.table], <<>>)
          [] kind = "xget" ->
                IF x[1] # "table" THEN fail(S, "attempt to index a non-table value")
                ELSE LET r == Index(S.tables[x[2]], LInt(body.n))
                     IN  IF r.raise THEN fail(S, "error in metamethod")
                         ELSE fine(S, <<r.value>>)

\* luaL_loadbuffer: pushes the compiled chunk, or the compiler's message.
luaL_loadbuffer(S, c) ==
    IF Chunks[c].kind = "syntax"
    THEN [PushValue(S, LStr(TextId("syntax error"))) EXCEPT !.status = "LUA_ERRSYNTAX"]
    ELSE [PushValue(S, LFunction(c)) EXCEPT !.status = "LUA_OK"]

\* lua_pcall(state, nargs, LUA_MULTRET, 0): the function and its nargs arguments
\* are replaced by all the results, or by the error value.
lua_pcall(S, nargs) ==
    LET top == Len(S.stack)
        f == S.stack[top - nargs]
        args == SubSeq(S.stack, top - nargs + 1, top)
        base == SubSeq(S.stack, 1, top - nargs - 1)
        S0 == [S EXCEPT !.stack = base]
        done(r) ==
            IF r.ok
            THEN [r.S EXCEPT !.stack = base \o r.rets, !.status = "LUA_OK",
                             !.raised = FALSE, !.error = Nil, !.rets = r.rets,
                             !.frame = <<f>> \o args]
            ELSE [r.S EXCEPT !.stack = Append(base, r.err), !.status = "LUA_ERRRUN",
                             !.raised = TRUE, !.error = r.err, !.rets = <<>>,
                             !.frame = <<f>> \o args]
    IN  done(IF f[1] = "function" THEN Exec(S0, f[2], args)
             ELSE [S |-> S0, ok |-> FALSE, rets |-> <<>>,
                   err |-> LStr(TextId("attempt to call a non-function value"))])

---------------------------------------------------------------------------
(* The Lua type (src/function.c).  A handler gives [S, ret]; ret is what   *)
(* the host receives: [shape, vals] with shape "value" (vals has the one   *)
(* value), "tuple", "list", "dict" (vals lists key, value, key, value ...),*)
(* or "NULL", the failure return.                                          *)

NULL == [shape |-> "NULL", vals |-> <<>>]
Value(v) == [shape |-> "value", vals |-> <<v>>]

\* set: set variable x in Lua.
set(S, value) ==
    LET S1 == PushValue(S, <<"globals", 0>>)   \* lua_rawgeti(LUA_RIDX_GLOBALS)
        S2 == Lua_push(S1, value)
        S3 == lua_pop([S2 EXCEPT !.globals.x = ValueAt(S2, -1)], 1)   \* lua_setfield
    IN  lua_settop(S3, -2)

\* return_stack that collapses nothing: one value comes back as a sequence too.
\* C3 must not hold of it.
return_stack_never_single(S, pos, keep_single) ==
    LET size == lua_gettop(S) - pos
        tuple(r) == [S |-> lua_settop(r.S, pos),
                     ret |-> [shape |-> "tuple", vals |-> r.vals]]
    IN  IF keep_single \/ size > 0
        THEN tuple(DecodeSlots(S, [i \in 1..size |-> -size + (i - 1)], <<>>))
        ELSE [S |-> lua_settop(S, pos), ret |-> Value(PyNone)]

\* return_stack that takes the whole stack for the results, not the slots above
\* pos.  C4 must not hold of it.
return_stack_from_bottom(S, pos, keep_single) ==
    LET size == lua_gettop(S)
        tuple(r) == [S |-> lua_settop(r.S, pos),
                     ret |-> [shape |-> "tuple", vals |-> r.vals]]
        single(r) == [S |-> lua_settop(r.S, pos), ret |-> Value(r.ret)]
    IN  IF keep_single \/ size > 1
        THEN tuple(DecodeSlots(S, [i \in 1..size |-> -size + (i - 1)], <<>>))
        ELSE IF size = 1
        THEN single(Lua_to_python(S, -1))
        ELSE [S |-> lua_settop(S, pos), ret |-> Value(PyNone)]

return_stack(S, pos, keep_single) ==
    LET size == lua_gettop(S) - pos
        tuple(r) == [S |-> lua_settop(r.S, pos),
                     ret |-> [shape |-> "tuple", vals |-> r.vals]]
        single(r) == [S |-> lua_settop(r.S, pos), ret |-> Value(r.ret)]
    IN  IF keep_single \/ size > 1
        THEN tuple(DecodeSlots(S, [i \in 1..size |-> -size + (i - 1)], <<>>))
        ELSE IF size = 1
        THEN single(Lua_to_python(S, -1))
        ELSE [S |-> lua_settop(S, pos), ret |-> Value(PyNone)]

\* Lua_run_code: run code after having loaded the buffer.
Lua_run_code(S, pos, keep_single, nargs) ==
    LET called(S1) ==
            IF S1.pyerr # ""
            THEN [S |-> lua_settop(S1, 0), ret |-> NULL]
            ELSE IF S1.status # "LUA_OK"
            THEN [S |-> lua_settop(PyErr_Format(S1, "RuntimeError",
                                                lua_tostring(S1, -1)), 0),
                  ret |-> NULL]
            ELSE return_stack(S1, pos, keep_single)
    IN  called(lua_pcall(S, nargs))

\* run: run string in lua.
run(S, cmd, keep_single) ==
    LET pos == lua_gettop(S)
        loaded(S1) ==
            IF S1.status # "LUA_OK"
            THEN [S |-> PyErr_Format(S1, "ValueError", lua_tostring(S1, -1)),
                  ret |-> NULL]
            ELSE Lua_run_code(S1, pos, keep_single, 0)
    IN  loaded(luaL_loadbuffer(S, cmd))

\* Lua_run: the host's run(code, var, value, keep_single); hasvar tells whether
\* var and value were given.
Lua_run(S, code, hasvar, value, keep_single) ==
    run(IF hasvar THEN set(S, value) ELSE S, code, keep_single)

---------------------------------------------------------------------------
(* The Function type (src/function.c). *)

RECURSIVE PushAll(_, _)
PushAll(S, args) ==
    IF args = <<>> THEN S ELSE PushAll(Lua_push(S, Head(args)), Tail(args))

\* Function_call: self is the proxy's reference.
Function_call(S, self, args, keep_single) ==
    LET pos == lua_gettop(S)
        S1 == lua_rawgeti_registry(S, self)
        S2 == PushAll(S1, args)
    IN  Lua_run_code(S2, pos, keep_single, Len(args))

---------------------------------------------------------------------------
(* The Table type (src/table.c).  self is the proxy's reference. *)


\* Table_len; border is the length that the runtime reports.
Table_len(S, self, border) ==
    LET S1 == lua_rawgeti_registry(S, self)
        S2 == lua_len(S1, -1, border)
        ret == ValueAt(S2, -1)[2]      \* lua_tonumber
    IN  [S |-> lua_pop(S2, 2), ret |-> Value(PyInt(ret))]

\* Table_getitem with lua_rawget in the place of lua_gettable: the lookup that
\* ignores __index.  C7 must not hold of it.
Table_getitem_raw(S, self, key) ==
    LET S1 == lua_rawgeti_registry(S, self)
        S2 == Lua_push(S1, key)
        S3 == PushValue(lua_pop(S2, 1),
                        RawGet(S2.tables[ValueAt(S2, -2)[2]], ValueAt(S2, -1)))
        r == Lua_to_python(S3, -1)
        S4 == lua_pop(r.S, 2)
    IN  IF r.ret = PyNone
        THEN [S |-> PyErr_Format(S4, "IndexError", "Key does not exist in Lua table"),
              ret |-> NULL]
        ELSE [S |-> S4, ret |-> Value(r.ret)]

Table_getitem(S, self, key) ==
    LET S1 == lua_rawgeti_registry(S, self)     \* Table pushed.
        S2 == Lua_push(S1, key)                 \* Key pushed.
        S3 == lua_gettable(S2, -2)              \* Key replaced by value.
        r == Lua_to_python(S3, -1)
        S4 == lua_pop(r.S, 2)
    IN  IF r.ret = PyNone
        THEN [S |-> PyErr_Format(S4, "IndexError", "Key does not exist in Lua table"),
              ret |-> NULL]
        ELSE [S |-> S4, ret |-> Value(r.ret)]

\* Table_setitem that keeps the assignment to itself: key and value are popped,
\* the table is not written.  C6 must not hold of it.
Table_setitem_unwritten(S, self, key, value) ==
    LET S1 == lua_rawgeti_registry(S, self)
        S2 == Lua_push(S1, key)
        S3 == IF value = NoValue THEN lua_pushnil(S2) ELSE Lua_push(S2, value)
    IN  [S |-> lua_pop(S3, 3), ret |-> Value(PyInt(0))]

Table_setitem(S, self, key, value) ==
    LET S1 == lua_rawgeti_registry(S, self)     \* Table pushed.
        S2 == Lua_push(S1, key)
        S3 == IF value = NoValue THEN lua_pushnil(S2) ELSE Lua_push(S2, value)
        S4 == lua_settable(S3, -3)              \* Pops key and value from stack
    IN  [S |-> lua_pop(S4, 1), ret |-> Value(PyInt(0))]

\* PyObject_RichCompareBool(v, w, Py_EQ): 1, 0, or -1 when the comparison raises.
\* The same object is equal to itself without being asked; host object 1
\* raises from its __eq__.
PyObject_RichCompareBool(v, w) ==
    IF v = w THEN 1
    ELSE IF v = PyObj(1) \/ w = PyObj(1) THEN -1
    ELSE 0

\* The loop of Table_contains, with the table and the last key on the stack.
RECURSIVE ContainsLoop(_, _)
ContainsLoop(S, value) ==
    LET S1 == lua_next(S, -2)
    IN  IF S1.panic THEN [S |-> S1, ret |-> NULL]
        ELSE IF S1.status = "none"
        THEN [S |-> lua_pop(S1, 1), ret |-> Value(<<"bool", 0>>)]
        ELSE LET candidate == Lua_to_python(S1, -1)
                 cmp == PyObject_RichCompareBool(value, candidate.ret)
             IN  IF cmp = 1
                 THEN [S |-> lua_pop(candidate.S, 3), ret |-> Value(<<"bool", 1>>)]
                 ELSE IF cmp = -1
                 THEN [S |-> PyErr_Format(lua_pop(candidate.S, 3), "HostError",
                                          "raised by the comparison"),
                       ret |-> NULL]
                 ELSE ContainsLoop(lua_pop(candidate.S, 1), value)

\* Table_contains: check if the argument exists in the table as a value.
Table_contains(S, self, value) ==
    ContainsLoop(lua_pushnil(lua_rawgeti_registry(S, self)), value)

\* The loop of Table_iadd.
RECURSIVE IaddLoop(_, _, _)
IaddLoop(S, items, length) ==
    IF items = <<>> THEN S
    ELSE IaddLoop(lua_seti(Lua_push(S, Head(items)), -2, length + 1),
                  Tail(items), length + 1)

\* Table_iadd: append the items of a host iterable; border is the length that
\* the runtime reports.
Table_iadd(S, self, items, border) ==
    LET S1 == lua_rawgeti_registry(S, self)     \* Push Table.
        S2 == lua_len(S1, -1, border)           \* Length pushed.
        length == ValueAt(S2, -1)[2]
        S3 == lua_pop(S2, 1)                    \* Length popped.
        S4 == IF S2.panic THEN S2 ELSE IaddLoop(S3, items, length)
    IN  [S |-> lua_pop(S4, 1), ret |-> Value(PyTable(self))]

\* The loop of dict_method, with the table and the last key on the stack.  (The
\* Lua_dump_stack call of the loop prints the stack; the proxies it makes for
\* the tables on the stack are released at once.)
RECURSIVE DictLoop(_, _)
DictLoop(S, ret) ==
    LET S1 == lua_next(S, -2)
    IN  IF S1.panic THEN [S |-> S1, ret |-> NULL]
        ELSE IF S1.status = "none"
        THEN [S |-> lua_pop(S1, 1), ret |-> [shape |-> "dict", vals |-> ret]]
        ELSE LET key == Lua_to_python(S1, -2)
                 value == Lua_to_python(key.S, -1)
                 fail == ~Hashable(key.ret)      \* PyDict_SetItem(ret, key, value) < 0
             IN  IF fail
                 THEN [S |-> PyErr_Format(value.S, "TypeError", "unhashable type"),
                       ret |-> NULL]
                 ELSE DictLoop(lua_pop(value.S, 1), ret \o <<key.ret, value.ret>>)

\* dict_method: get a copy of the table as a dict.
dict_method(S, target) ==
    DictLoop(lua_pushnil(lua_rawgeti_registry(S, target)), <<>>)

\* The loop of table_list_method, for i up to length.
RECURSIVE ListLoop(_, _, _, _)
ListLoop(S, i, length, ret) ==
    IF i > length THEN [S |-> S, vals |-> ret]
    ELSE LET S1 == lua_rawgeti(S, -1, i)
             value == Lua_to_python(S1, -1)
         IN  ListLoop(lua_pop(value.S, 1), i + 1, length, Append(ret, value.ret))

\* table_list_method: get a copy of (the sequence elements of) the table, as a
\* list; border is the length that the runtime reports.
table_list_method(S, target, border) ==
    LET S1 == lua_rawgeti_registry(S, target)
        S2 == lua_len(S1, -1, border)
        length == ValueAt(S2, -1)[2]
        S3 == lua_pop(S2, 1)
        r == IF S2.panic THEN [S |-> S2, vals |-> <<>>] ELSE ListLoop(S3, 1, length, <<>>)
    IN  [S |-> lua_pop(r.S, 1), ret |-> [shape |-> "list", vals |-> r.vals]]

---------------------------------------------------------------------------
(* Operators of the host applied to a table (src/table.c).  The Function    *)
(* objects of lua_operator are built by Lua_init; pushing one pushes its   *)
(* Lua function.                                                           *)

PyBool(b) == <<"bool", b>>
IsTable(obj) == obj[1] = "Table"

\* Table_binary_operator that pushes the table first whichever side it is on.
\* C15 must not hold of it.
Table_binary_operator_table_first(S, self_obj, value, operator) ==
    IF ~IsTable(self_obj) /\ ~IsTable(value)
    THEN [S |-> PyErr_Format(S, "ValueError", "argument is not a Lua Table"),
          ret |-> NULL]
    ELSE LET reverse == ~IsTable(self_obj)
             self == IF reverse THEN value ELSE self_obj
             other == IF reverse THEN self_obj ELSE value
             pos == lua_gettop(S)
             S1 == PushValue(S, lua_operator(operator))
             S2 == Lua_push(lua_rawgeti_registry(S1, self[2]), other)
         IN  Lua_run_code(S2, pos, FALSE, 2)

Table_binary_operator(S, self_obj, value, operator) ==
    IF ~IsTable(self_obj) /\ ~IsTable(value)
    THEN [S |-> PyErr_Format(S, "ValueError", "argument is not a Lua Table"),
          ret |-> NULL]
    ELSE LET reverse == ~IsTable(self_obj)
             self == IF reverse THEN value ELSE self_obj
             other == IF reverse THEN self_obj ELSE value
             pos == lua_gettop(S)
             S1 == PushValue(S, lua_operator(operator))
             S2 == IF ~reverse
                   THEN Lua_push(lua_rawgeti_registry(S1, self[2]), other)
                   ELSE lua_rawgeti_registry(Lua_push(S1, other), self[2])
         IN  Lua_run_code(S2, pos, FALSE, 2)

\* The comparison that the host makes with the operands swapped.
SwappedOp(op) ==
    CASE op = "Py_LT" -> "Py_GT"
      [] op = "Py_LE" -> "Py_GE"
      [] op = "Py_GT" -> "Py_LT"
      [] op = "Py_GE" -> "Py_LE"
      [] OTHER -> op

\* PyObject_Not of the value that a comparison returned.
PyObject_Not(result) ==
    LET v == result.vals[1]
    IN  IF v[1] = "bool" THEN ~v[2] ELSE v = PyNone

Table_richcompare(S, lhs, rhs, op) ==
    IF ~IsTable(lhs) /\ ~IsTable(rhs)
    THEN [S |-> PyErr_Format(S, "ValueError", "argument is not a Lua Table"),
          ret |-> NULL]
    ELSE LET reverse == ~IsTable(lhs)
             self == IF reverse THEN rhs ELSE lhs
             other == IF reverse THEN lhs ELSE rhs
             op1 == IF reverse THEN SwappedOp(op) ELSE op
             lua_op == CASE op1 \in {"Py_LT", "Py_GE"} -> "LT"
                         [] op1 \in {"Py_LE", "Py_GT"} -> "LE"
                         [] OTHER -> "EQ"
             invert == op1 \in {"Py_GT", "Py_GE", "Py_NE"}
             pos == lua_gettop(S)
             S1 == PushValue(S, lua_operator(lua_op))
             S2 == Lua_push(lua_rawgeti_registry(S1, self[2]), other)
             compared(result) ==
                 IF result.ret = NULL \/ ~invert THEN result
                 ELSE [S |-> result.S, ret |-> Value(PyBool(PyObject_Not(result.ret)))]
         IN  compared(Lua_run_code(S2, pos, FALSE, 2))

\* The host's dispatch of  v op w  with a table among v and w: the slot of
\* the left operand's type if it is a table, else the slot of the right
\* operand's type, for a comparison with the operator swapped.
PyObject_RichCompare(S, v, w, op) ==
    IF IsTable(v) THEN Table_richcompare(S, v, w, op)
    ELSE Table_richcompare(S, w, v, SwappedOp(op))

---------------------------------------------------------------------------
(* The TableIter type (src/table.c). *)

\* The NULL of TableIter.current.
NoCurrent == <<"NULL", 0>>

Table_iter_create(target, is_ipairs) ==
    IF is_ipairs
    THEN [target |-> target, is_ipairs |-> TRUE, current |-> NoCurrent, icurrent |-> 0]
    ELSE [target |-> target, is_ipairs |-> FALSE, current |-> PyNone, icurrent |-> -1]

\* Table_iter_iternext of an integer-indexed iterator that does not remember
\* that it is exhausted.  C9 must not hold of it.
Table_iter_iternext_forgetful(S, self) ==
    IF self.is_ipairs
    THEN IF self.icurrent < 0 THEN [S |-> S, ret |-> NULL, self |-> self]
         ELSE LET icurrent == self.icurrent + 1
                  S1 == Lua_push(S, PyTable(self.target))
                  S2 == lua_geti(S1, -1, icurrent)
              IN  IF ValueAt(S2, -1) = Nil
                  THEN [S |-> lua_pop(S2, 2), ret |-> NULL, self |-> self]
                  ELSE LET ret == Lua_to_python(S2, -1)
                       IN  [S |-> lua_pop(ret.S, 2),
                            ret |-> [shape |-> "tuple", vals |-> <<PyInt(icurrent), ret.ret>>],
                            self |-> [self EXCEPT !.icurrent = icurrent]]
    ELSE IF self.current = NoCurrent THEN [S |-> S, ret |-> NULL, self |-> self]
         ELSE LET S1 == Lua_push(S, PyTable(self.target))
                  S2 == Lua_push(S1, self.current)
                  S3 == lua_next(S2, -2)
              IN  IF S3.status = "none"
                  THEN [S |-> lua_pop(S3, 1), ret |-> NULL,
                        self |-> [self EXCEPT !.current = NoCurrent]]
                  ELSE LET value == Lua_to_python(S3, -1)
                           current == Lua_to_python(value.S, -2)
                       IN  [S |-> lua_pop(current.S, 3),
                            ret |-> [shape |-> "tuple", vals |-> <<current.ret, value.ret>>],
                            self |-> [self EXCEPT !.current = current.ret]]

\* Table_iter_iternext.  Gives [S, ret, self]: self is the iterator afterwards.
Table_iter_iternext(S, self) ==
    IF self.is_ipairs
    THEN IF self.icurrent < 0 THEN [S |-> S, ret |-> NULL, self |-> self]
         ELSE LET icurrent == self.icurrent + 1
                  S1 == Lua_push(S, PyTable(self.target))
                  S2 == lua_geti(S1, -1, icurrent)
              IN  IF ValueAt(S2, -1) = Nil
                  THEN [S |-> lua_pop(S2, 2), ret |-> NULL,
                        self |-> [self EXCEPT !.icurrent = -1]]
                  ELSE LET ret == Lua_to_python(S2, -1)
                       IN  [S |-> lua_pop(ret.S, 2),
                            ret |-> [shape |-> "tuple", vals |-> <<PyInt(icurrent), ret.ret>>],
                            self |-> [self EXCEPT !.icurrent = icurrent]]
    \* pairs iterator.
    ELSE IF self.current = NoCurrent THEN [S |-> S, ret |-> NULL, self |-> self]
         ELSE LET S1 == Lua_push(S, PyTable(self.target))
                  S2 == Lua_push(S1, self.current)
                  S3 == lua_next(S2, -2)
              IN  IF S3.status = "none"
                  THEN [S |-> lua_pop(S3, 1), ret |-> NULL,
                        self |-> [self EXCEPT !.current = NoCurrent]]
                  ELSE LET value == Lua_to_python(S3, -1)
                           current == Lua_to_python(value.S, -2)
                       IN  [S |-> lua_pop(current.S, 3),
                            ret |-> [shape |-> "tuple", vals |-> <<current.ret, value.ret>>],
                            self |-> [self EXCEPT !.current = current.ret]]

---------------------------------------------------------------------------
(* The state machine: after Lua() has built the Environment, the host makes *)
(* one call after the other.                                               *)

\* last before any call; the fields of a call that does not use them stay so.
NoCall == [op |-> "none", code |-> 0, hasvar |-> FALSE, keep_single |-> FALSE,
           self |-> 0, key |-> PyNone, value |-> PyNone, args |-> <<>>,
           status |-> "none", text |-> "", ret |-> NULL,
           raised |-> FALSE, error |-> Nil, rets |-> <<>>,
           operator |-> "", frame |-> <<>>, calls |-> <<>>, refs |-> <<>>]

\* enum Operator: the unary operators that have a Lua function.
UnaryOperators == <<"NEG", "NOT", "TOSTRING">>

\* build_wrapper(self, code, desc, true): the function that the code returns
\* is pinned; ref is its index.
build_wrapper(S, f) == luaL_ref(PushValue(S, f))

\* Lua_init from the unary operators on: for each operator of lua_operator,
\* build_wrapper, lua_rawgeti of the index and Function_create; then the
\* references table_remove, table_concat, table_insert, table_unpack,
\* table_move, table_sort and package_loaded.
\* The Lua object when Lua_init returns and the host has the one reference to
\* it.  The references that Lua_init pinned come before those of the model's
\* registry: they are numbered downwards from 0.  lua.refs are the references
\* that the object's own fields hold, lua_operator the Function objects
\* of the operators, which no variable of the host refers to; each has taken
\* its reference to the Lua object.
Lua_new ==
    LET functions == [k \in 1..Len(UnaryOperators) |-> <<"function", 0>>]
                        \o [k \in 1..Len(Operators) |-> lua_operator(Operators[k])]
        fields == 7
        n == 2 * Len(functions) + fields
        \* The state when the operators before the k-th have been built.
        before(k) == [stack |-> <<>>, ref |-> 0,
                      registry |-> [i \in 1..2 * (k - 1) |-> functions[(i + 1) \div 2]],
                      mem |-> [lua |-> [ob_refcnt |-> 1], objects |-> <<>>,
                               freelist |-> 0]]
        indexed(S) == lua_rawgeti_registry(S, S.ref)
        made(k) == Function_create(indexed(build_wrapper(before(k), functions[k]))).mem
    IN  [lua |-> [ob_refcnt |->
                      1 + Cardinality({k \in DOMAIN functions :
                                          made(k).lua.ob_refcnt > 1}),
                  held |-> TRUE, state |-> "open", freed |-> FALSE,
                  refs |-> {r - n : r \in 2 * Len(functions) + 1..n},
                  lost |-> {}],
         lua_operator |-> [k \in DOMAIN functions |->
                              [made(k).objects[1] EXCEPT !.id = @ - n, !.held = FALSE]],
         objects |-> <<>>,
         freelist |-> 0,
         released |-> <<>>,
         finalized |-> {},
         reclaimed |-> {}]

\* After Lua(**flags) the stack is empty; no proxy, table or userdata of the
\* host exists.
Constructed(flags) ==
    /\ stack = <<>>
    /\ registry = <<>>
    /\ tables = <<>>
    /\ userdata = <<>>
    /\ first_userdata = 0
    /\ globals = [x |-> Nil, env |-> Lua_init(flags), flags |-> flags, wk |-> Nil]
    /\ iters = <<>>
    /\ aborted = FALSE
    /\ heap = HostHeap
    /\ last = NoCall
    /\ mem = Lua_new

\* Lua(): every flag has its default.
Init == Constructed([f \in FlagNames |-> f = "python_module"])

\* What the host sees of a handler's return: "ok", the type of the error raised,
\* "StopIteration" for NULL without an error, or "abort".
Status(out) ==
    IF out.S.panic THEN "abort"
    ELSE IF out.ret # NULL THEN "ok"
    ELSE IF out.S.pyerr = "" THEN "StopIteration"
    ELSE out.S.pyerr

\* The model's room for what a call leaves behind.
Fits(S) ==
    /\ Len(S.stack) <= MaxStack
    /\ Len(S.registry) <= MaxRefs
    /\ Len(S.userdata) <= MaxUd

\* The handler has returned out to the host, or the process is gone.
Returned(call, out) ==
    /\ ~aborted
    /\ aborted' = out.S.panic
    /\ IF out.S.panic
       THEN UNCHANGED <<stack, registry, tables, userdata, first_userdata, globals, heap,
                        mem>>
       ELSE /\ stack' = out.S.stack
            /\ mem' = out.S.mem
            /\ heap' = out.S.heap
            /\ registry' = out.S.registry
            /\ tables' = out.S.tables
            /\ userdata' = out.S.userdata
            /\ first_userdata' = out.S.first_userdata
            /\ globals' = out.S.globals
    /\ last' = [call EXCEPT !.status = Status(out),
                            !.text = IF out.S.panic THEN "" ELSE out.S.pytext,
                            !.ret = IF out.S.panic THEN NULL ELSE out.ret,
                            !.raised = out.S.raised,
                            !.error = out.S.error,
                            !.rets = out.S.rets,
                            !.frame = out.S.frame,
                            !.calls = out.S.calls,
                            !.refs = out.S.refs]

\* The same, within the model's room.
Return(call, out) ==
    /\ out.S.panic \/ Fits(out.S)
    /\ Returned(call, out)

\* The proxies that the host holds.
TableRefs == {r \in 1..Len(registry) : registry[r][1] = "table"}
FunctionRefs == {r \in 1..Len(registry) : registry[r][1] = "function"}

\* The inputs of the host.
HostValues == {PyNone, NoValue, PyInt(10)}
HostArgs == {<<>>, <<PyInt(1)>>, <<PyInt(1), PyInt(2)>>}

\* lua.run(code, var = "x", value = value, keep_single = keep_single)
Run(code, hasvar, value, keep_single) ==
    /\ Return([NoCall EXCEPT !.op = "run", !.code = code, !.hasvar = hasvar,
                             !.value = IF hasvar THEN value ELSE PyNone,
                             !.keep_single = keep_single],
              Lua_run(L, code, hasvar, value, keep_single))
    /\ UNCHANGED iters

\* function(*args, keep_single = keep_single)
Invoke(self, args, keep_single) ==
    /\ Return([NoCall EXCEPT !.op = "invoke", !.self = self, !.args = args,
                             !.keep_single = keep_single],
              Function_call(L, self, args, keep_single))
    /\ UNCHANGED iters

\* len(table)
Length(self, border) ==
    /\ Return([NoCall EXCEPT !.op = "len", !.self = self],
              Table_len(L, self, border))
    /\ UNCHANGED iters

\* table[key]
GetItem(self, key) ==
    /\ Return([NoCall EXCEPT !.op = "getitem", !.self = self, !.key = key],
              Table_getitem(L, self, key))
    /\ UNCHANGED iters

\* table[key] = value, del table[key]
SetItem(self, key, value) ==
    /\ Return([NoCall EXCEPT !.op = "setitem", !.self = self, !.key = key,
                             !.value = value],
              Table_setitem(L, self, key, value))
    /\ UNCHANGED iters

\* value in table
Contains(self, value) ==
    /\ Return([NoCall EXCEPT !.op = "contains", !.self = self, !.value = value],
              Table_contains(L, self, value))
    /\ UNCHANGED iters

\* table += [item]
Extend(self, item, border) ==
    /\ border < MaxKey
    /\ Return([NoCall EXCEPT !.op = "iadd", !.self = self, !.args = <<item>>],
              Table_iadd(L, self, <<item>>, border))
    /\ UNCHANGED iters

\* table.dict()
ToDict(self) ==
    /\ Return([NoCall EXCEPT !.op = "dict", !.self = self], dict_method(L, self))
    /\ UNCHANGED iters

\* table.list()
ToList(self, border) ==
    /\ Return([NoCall EXCEPT !.op = "list", !.self = self],
              table_list_method(L, self, border))
    /\ UNCHANGED iters

\* table.pairs(), table.ipairs()
IterateWithin(target, is_ipairs, max) ==
    /\ ~aborted
    /\ Len(iters) < max
    /\ iters' = Append(iters, Table_iter_create(target, is_ipairs))
    /\ last' = [NoCall EXCEPT !.op = "iter", !.self = target, !.status = "ok"]
    /\ UNCHANGED <<stack, registry, tables, userdata, first_userdata, globals, aborted,
                   heap, mem>>

Iterate(target, is_ipairs) == IterateWithin(target, is_ipairs, MaxIters)

\* v op w, for a comparison operator op of the host
Compare(v, w, op) ==
    /\ Return([NoCall EXCEPT !.op = "compare", !.args = <<v, w>>, !.operator = op],
              PyObject_RichCompare(L, v, w, op))
    /\ UNCHANGED iters

\* v operator w, for a binary operator of the host: the slot of the table's
\* type is called with the operands in source order.
Binary(v, w, operator) ==
    /\ Return([NoCall EXCEPT !.op = "binary", !.args = <<v, w>>,
                             !.operator = operator],
              Table_binary_operator(L, v, w, operator))
    /\ UNCHANGED iters

\* next(iterator)
IterNext(i) ==
    LET returned(out) ==
            /\ Return([NoCall EXCEPT !.op = "next", !.self = i], out)
            /\ iters' = IF out.S.panic THEN iters ELSE [iters EXCEPT ![i] = out.self]
    IN  /\ iters[i].icurrent <= MaxKey
        /\ returned(Table_iter_iternext(L, iters[i]))

BordersOf(self) == Borders(tables[registry[self][2]])

\* Run and invoke: scripts that return, raise, fail to compile, call the host and
\* read the variable that run assigns.
RunScripts == ChunksOf({"syntax", "return", "error", "callx", "callx_error", "getx",
                        "mkecho", "mkerror"})
VarScripts == ChunksOf({"syntax", "callx", "callx_error", "getx"})
\* keep_single is asked of the scripts that return values.
RunCalls == {<<code, FALSE>> : code \in RunScripts}
                \cup {<<code, TRUE>> : code \in ChunksOf({"return", "getx"})}

NextRun ==
    \/ \E call \in RunCalls : Run(call[1], FALSE, PyNone, call[2])
    \/ \E code \in VarScripts, value \in {PyInt(5), PyObj(1)} :
            Run(code, TRUE, value, FALSE)
    \/ \E self \in FunctionRefs, args \in HostArgs, keep \in BOOLEAN :
            Invoke(self, args, keep)

SpecRun == Init /\ [][NextRun]_vars

\* One table: a script makes it, scripts read and write it as x, and the host
\* works on its proxies.
NewTable == \E code \in ChunksOf({"newtable"}) :
                registry = <<>> /\ Run(code, FALSE, PyNone, FALSE)

TableScripts == ChunksOf({"getx", "xset", "xget"})
IterKeys == {PyObj(2)} \cup {PyInt(k) : k \in 1..MaxKey}
TableKeys == {PyNone} \cup IterKeys

NextTable ==
    \/ NewTable
    \/ \E code \in TableScripts : Run(code, FALSE, PyNone, FALSE)
    \/ \E code \in TableScripts, self \in TableRefs : Run(code, TRUE, PyTable(self), FALSE)
    \/ \E self \in TableRefs, key \in TableKeys : GetItem(self, key)
    \/ \E self \in TableRefs, key \in TableKeys, value \in HostValues :
            SetItem(self, key, value)

SpecTable == Init /\ [][NextTable]_vars

\* One table without a raising metamethod, filled by the host (host objects
\* among the keys), and iterators that walk it.

NextIter ==
    \/ \E code \in ChunksOf({"newtable"}) :
            /\ registry = <<>>
            /\ Metas[Chunks[code].n + 1] # "error"
            /\ Run(code, FALSE, PyNone, FALSE)
    \/ \E self \in TableRefs, key \in IterKeys, value \in {PyInt(10), NoValue} :
            SetItem(self, key, value)
    \/ \E self \in TableRefs, is_ipairs \in BOOLEAN : Iterate(self, is_ipairs)
    \/ \E i \in 1..Len(iters) : IterNext(i)

SpecIter == Init /\ [][NextIter]_vars

\* Tables with and without the "set" metatable, proxies that went through the
\* codec and came back, writes through the proxies, and comparisons of proxies.
PlainAndSet == ChunksOf({"newset"})
                \cup {c \in ChunksOf({"newtable"}) : Metas[Chunks[c].n + 1] = "none"}
Proxies == {PyTable(r) : r \in TableRefs}

NextSame ==
    \/ \E code \in PlainAndSet : Run(code, FALSE, PyNone, FALSE)
    \/ \E self \in TableRefs : Run(ChunkId("getx"), TRUE, PyTable(self), FALSE)
    \/ \E self \in TableRefs, value \in {PyInt(10), NoValue} :
            SetItem(self, PyInt(1), value)
    \/ \E v \in Proxies, w \in Proxies, op \in {"Py_EQ", "Py_NE"} : Compare(v, w, op)

SpecSame == Init /\ [][NextSame]_vars

\* Plain tables and sets that the host fills and compares with each other and
\* with an integer, the table on either side, with every comparison operator.
CompareOps == {"Py_LT", "Py_LE", "Py_GT", "Py_GE", "Py_EQ", "Py_NE"}
Operands == Proxies \cup {PyInt(1)}
TablePairs == {pair \in Operands \X Operands : IsTable(pair[1]) \/ IsTable(pair[2])}

NextCompare ==
    \/ \E code \in PlainAndSet : Run(code, FALSE, PyNone, FALSE)
    \/ \E self \in TableRefs, key \in {PyInt(1), PyInt(2)} :
            SetItem(self, key, PyInt(10))
    \/ \E pair \in TablePairs, op \in CompareOps : Compare(pair[1], pair[2], op)

SpecCompare == Init /\ [][NextCompare]_vars

\* Plain tables and sets to which the host applies its binary operators,
\* with the table on either side.
BinaryOps == {Operators[k] : k \in 1..Len(Operators)} \ {"EQ", "LT", "LE"}

NextArith ==
    \/ \E code \in PlainAndSet : Run(code, FALSE, PyNone, FALSE)
    \/ \E pair \in TablePairs, operator \in BinaryOps :
            Binary(pair[1], pair[2], operator)

SpecArith == Init /\ [][NextArith]_vars

\* The values that the codec converts (integers at and beyond the ends of the
\* range of long long, floats with and without an integral value, booleans,
\* texts, None) go into x and come back, and into a table and come back.
PyFloat(n) == <<"float", n>>
CodecValues ==
    {PyNone, PyBool(TRUE), PyBool(FALSE), PyStr(1), PyStr(2)}
        \cup {PyInt(n) : n \in {0, 1, -1, LLONG_MAX, LLONG_MAX + 1, LLONG_MIN, LLONG_MIN - 1}}
        \cup {PyFloat(n) : n \in {1, 2, -3, 2 * LLONG_MAX, 2 * LLONG_MAX + 2}}

NextCodec ==
    \/ \E value \in CodecValues : Run(ChunkId("getx"), TRUE, value, FALSE)
    \/ Run(ChunkId("getx"), FALSE, PyNone, FALSE)
    \/ NewTable
    \/ \E self \in TableRefs, value \in CodecValues : SetItem(self, PyInt(1), value)
    \/ \E self \in TableRefs : GetItem(self, PyInt(1))

SpecCodec == Init /\ [][NextCodec]_vars

\* One table that the host fills before it makes iterators, and then several
\* iterators of both kinds that walk the table in any interleaving.
NextWalk ==
    \/ \E code \in ChunksOf({"newtable"}) :
            /\ registry = <<>>
            /\ Metas[Chunks[code].n + 1] = "none"
            /\ Run(code, FALSE, PyNone, FALSE)
    \/ \E self \in TableRefs, key \in IterKeys :
            iters = <<>> /\ SetItem(self, key, PyInt(10))
    \/ \E self \in TableRefs, is_ipairs \in BOOLEAN :
            IterateWithin(self, is_ipairs, MaxWalkers)
    \/ \E i \in 1..Len(iters) : IterNext(i)

SpecWalk == Init /\ [][NextWalk]_vars

\* Every kind of call on one Environment: runs that fail, and the operations
\* of a table with integers and host objects in it.
NextCalls ==
    \/ NewTable
    \/ \E code \in ChunksOf({"syntax", "error", "mkerror"}) : Run(code, FALSE, PyNone, FALSE)
    \/ \E self \in FunctionRefs : Invoke(self, <<>>, FALSE)
    \/ \E self \in TableRefs : \E border \in BordersOf(self) : Length(self, border)
    \/ \E self \in TableRefs, key \in TableKeys : GetItem(self, key)
    \/ \E self \in TableRefs, key \in TableKeys, value \in {PyInt(10), PyObj(1)} :
            SetItem(self, key, value)
    \/ \E self \in TableRefs, value \in {PyInt(10), PyObj(1), PyObj(2)} :
            Contains(self, value)
    \/ \E self \in TableRefs : \E border \in BordersOf(self) :
            Extend(self, PyInt(10), border)
    \/ \E self \in TableRefs : ToDict(self)
    \/ \E self \in TableRefs : \E border \in BordersOf(self) : ToList(self, border)

SpecCalls == Init /\ [][NextCalls]_vars

---------------------------------------------------------------------------
(* The claims of the specification, each under the specification named.    *)

\* The host value v is what the codec gives for the Lua value w.
Decodes(w, v) ==
    CASE w[1] = "nil" -> v = PyNone
      [] w[1] = "int" -> v = PyInt(w[2])
      [] w[1] = "string" -> v = PyStr(w[2])
      [] w[1] = "table" -> v[1] = "Table" /\ v[2] \in DOMAIN registry /\ registry[v[2]] = w
      [] w[1] = "function" ->
            v[1] = "Function" /\ v[2] \in DOMAIN registry /\ registry[v[2]] = w
      [] w[1] = "userdata" -> v = userdata[w[2]].target
      [] OTHER -> FALSE

\* What the host sees of a call.
Outcome(out) == [status |-> Status(out), text |-> out.S.pytext, ret |-> out.ret]

\* C1 (SpecCalls): after any sequence of run, invoke and table operation calls,
\* failing ones included, the depth of the Lua stack is the depth before the
\* first call, which is 0.
C1_StackDepthKept == Len(stack) = 0

\* C2 (SpecRun): when the code of a run or invoke raises an error, the host gets
\* a RuntimeError (ScriptError) that carries the text of the Lua error.
C2_ScriptErrorCarriesText ==
    (last.op \in {"run", "invoke"} /\ last.raised) =>
        /\ last.status = "RuntimeError"
        /\ last.text = Texts[last.error[2]]

\* C3 (SpecRun): a run or invoke that succeeds with n returned values gives
\* None for n = 0, the decoded value for n = 1 and the sequence of the n decoded
\* values in order for n >= 2; with keep_single it gives the sequence of the n
\* decoded values in order for every n.
C3_ReturnCollapsing ==
    (last.op \in {"run", "invoke"} /\ last.status = "ok") =>
        LET n == Len(last.rets)
            InOrder == /\ Len(last.ret.vals) = n
                       /\ \A i \in 1..n : Decodes(last.rets[i], last.ret.vals[i])
        IN  IF last.keep_single \/ n >= 2 THEN last.ret.shape = "tuple" /\ InOrder
            ELSE IF n = 1 THEN last.ret.shape = "value" /\ InOrder
            ELSE last.ret = Value(PyNone)

\* An invoke with keep_single that gave the one value returned as a sequence.
C3_Witness ==
    /\ last.op = "invoke"
    /\ last.status = "ok"
    /\ last.keep_single
    /\ Len(last.rets) = 1
    /\ last.ret.shape = "tuple"

\* The step is a run of code that does not compile.
SyntaxFailure == last'.op = "run" /\ Chunks[last'.code].kind = "syntax"

ValidCalls == {call \in RunCalls : Chunks[call[1]].kind # "syntax"}

\* C4 as stated (SpecRun): a run whose code does not compile fails with
\* ValueError (SyntaxError), and every later run of valid code gives what it
\* would have given had the failing run never happened.
C4_AsIfNeverHappened ==
    [][SyntaxFailure =>
        /\ last'.status = "ValueError"
        /\ \A call \in ValidCalls :
              Outcome(Lua_run(L', call[1], FALSE, PyNone, call[2]))
                  = Outcome(Lua_run(L, call[1], FALSE, PyNone, call[2]))]_vars

\* C4 amended (SpecRun): a run whose code does not compile fails with
\* ValueError (SyntaxError) and runs no code, but the assignment var = value
\* that came with it has been made; every later run of valid code gives what it
\* would have given had the failing run been that assignment alone.
C4_AsIfOnlyAssigned ==
    [][SyntaxFailure =>
        LET assigned == IF last'.hasvar THEN set(L, last'.value) ELSE L
        IN  /\ last'.status = "ValueError"
            /\ ~last'.raised /\ last'.rets = <<>>
            /\ tables' = tables /\ registry' = registry
            /\ globals' = assigned.globals
            /\ \A call \in ValidCalls :
                  Outcome(Lua_run(L', call[1], FALSE, PyNone, call[2]))
                      = Outcome(Lua_run(assigned, call[1], FALSE, PyNone, call[2]))]_vars

\* A run of valid code has returned values after a run that did not compile
\* (whose message is still on the stack).
C4_Witness ==
    /\ last.op = "run"
    /\ last.status = "ok"
    /\ last.rets # <<>>
    /\ stack # <<>>

\* C5 (SpecCalls): a table operation that makes the runtime raise an error gives
\* the host a failure; the process is not aborted.
C5_TableCallsNeverAbort ==
    last.op \in {"getitem", "setitem", "len", "iadd", "list"} => last.status # "abort"

\* The proxies of the table of proxy r.
SameTable(r) == {q \in TableRefs : registry[q] = registry[r]}

\* The scripts that read key k of the table in x.
XGets(k) == {c \in ChunksOf({"xget"}) : PyInt(Chunks[c].n) = k}

\* What set through a proxy has stored is what every proxy and every script reads.
HostWriteSeen ==
    \A r \in SameTable(last.self) :
        /\ Table_getitem(L, r, last.key).ret = Value(last.value)
        /\ \A c \in XGets(last.key) :
              Lua_run(L, c, TRUE, PyTable(r), FALSE).ret = Value(last.value)

\* What a script has stored in the table in x is what every proxy reads.
ScriptWriteSeen ==
    \A r \in TableRefs :
        registry[r] = globals.x =>
            Table_getitem(L, r, PyInt(Chunks[last.code].n)).ret
                = Value(IF Chunks[last.code].v = 0 THEN PyNone
                        ELSE PyInt(Chunks[last.code].v))

GetItemReturned == last'.op = "getitem" /\ last'.status # "abort"

\* The get of the step gave KeyNotFound (IndexError) for nil and the decoded
\* value for any other value found.
Looked(found) ==
    IF found = Nil THEN last'.status = "IndexError" /\ last'.ret = NULL
    ELSE /\ last'.status = "ok"
         /\ last'.ret = Value(Lua_to_python(PushValue(L, found), -1).ret)

FirstGap(t) ==
    CHOOSE k \in 0..MaxKey + 1 :
        /\ \A i \in 1..k : RawGet(t, LInt(i)) # Nil
        /\ RawGet(t, LInt(k + 1)) = Nil

\* C8 (SpecCalls): list() gives the values at 1..k in order, k + 1 being the
\* first index without a value: no None and nothing from after a gap, whatever
\* length the runtime reports.
C8_ListStopsAtGap ==
    (last.op = "list" /\ last.status = "ok") =>
        LET t == tables[registry[last.self][2]]
            k == FirstGap(t)
        IN  /\ Len(last.ret.vals) = k
            /\ \A i \in 1..k : Decodes(RawGet(t, LInt(i)), last.ret.vals[i])

\* The step is a next() of an integer-indexed iterator that returned to the host.
IpairsNext ==
    /\ last'.op = "next"
    /\ last'.status # "abort"
    /\ iters[last'.self].is_ipairs

\* C9 (SpecIter): an integer-indexed iterator starts before index 1; next()
\* gives (n, t[n]) for the next index n and signals exhaustion when t[n] is
\* nil; after that every next() signals exhaustion and touches nothing, whatever
\* the table holds by then.
C9_IpairsInOrder ==
    [][/\ (last'.op = "iter" /\ iters'[Len(iters')].is_ipairs)
            => iters'[Len(iters')].icurrent = 0
       /\ IpairsNext =>
            LET i == last'.self
                n == iters[i].icurrent + 1
                r == Index(tables[registry[iters[i].target][2]], LInt(n))
            IN  IF iters[i].icurrent < 0
                THEN /\ last'.status = "StopIteration"
                     /\ UNCHANGED <<iters, stack, registry, tables, userdata, globals, heap>>
                ELSE IF r.value = Nil
                THEN last'.status = "StopIteration" /\ iters'[i].icurrent < 0
                ELSE /\ last'.status = "ok"
                     /\ last'.ret =
                          [shape |-> "tuple",
                           vals |-> <<PyInt(n),
                                      Lua_to_python(PushValue(L, r.value), -1).ret>>]
                     /\ iters'[i].icurrent = n]_vars

\* An exhausted integer-indexed iterator signalled exhaustion while the table
\* has a value at index 1.
C9_Witness ==
    /\ last.op = "next"
    /\ last.status = "StopIteration"
    /\ iters[last.self].is_ipairs
    /\ iters[last.self].icurrent < 0
    /\ RawGet(tables[registry[iters[last.self].target][2]], LInt(1)) # Nil

\* C10 (SpecIter): every next() of a full-pairs iterator gives a pair of the
\* table or signals exhaustion (StopIteration, which is no error).
C10_PairsWalkCompletes ==
    (last.op = "next" /\ ~iters[last.self].is_ipairs) =>
        last.status \in {"ok", "StopIteration"}

\* What the host sees of a next() and the iterator it leaves.
Yield(out) == [status |-> Status(out), ret |-> out.ret,
               self |-> IF out.S.panic THEN NoCurrent ELSE out.self]

\* C11 (SpecWalk): a next() on one iterator of an unmutated table leaves every
\* other iterator of the table as it was and able to go on: the process lives,
\* the other iterator's cursor is the same, and its next() would give the same
\* as before the step.
C11_IteratorsIndependent ==
    [][last'.op = "next" =>
        \A j \in DOMAIN iters \ {last'.self} :
            /\ ~aborted'
            /\ iters'[j] = iters[j]
            /\ Yield(Table_iter_iternext(L', iters'[j]))
                    = Yield(Table_iter_iternext(L, iters[j]))]_vars

\* The run encoded a proxy into x and returned the decoding of x: the proxy
\* returned refers to the table of the proxy given.
DecodedSameTable ==
    /\ last.ret.shape = "value"
    /\ IsTable(last.ret.vals[1])
    /\ registry[last.ret.vals[1][2]] = registry[last.value[2]]

\* What was set or deleted through a proxy is what every proxy of the table reads.
WriteSeenThroughAll ==
    \A q \in SameTable(last.self) :
        Table_getitem(L, q, last.key).ret
            = IF last.value = NoValue THEN NULL ELSE Value(last.value)

\* The comparison of the step gave the truth value eq for == and its negation
\* for !=.
ComparedAs(eq) ==
    /\ last.status = "ok"
    /\ last.ret = Value(PyBool(eq <=> last.operator = "Py_EQ"))

\* C12 as stated (SpecSame): a proxy that is encoded and decoded comes back as a
\* proxy of the same table; a write through one proxy of a table is read
\* through every proxy of it; two proxies compare equal under the host's ==
\* exactly when they are proxies of the same table, so a table built
\* separately compares unequal whatever it holds.
C12_SameTableNotCopy ==
    /\ (last.op = "run" /\ last.hasvar /\ last.status = "ok") => DecodedSameTable
    /\ (last.op = "setitem" /\ last.status = "ok") => WriteSeenThroughAll
    /\ last.op = "compare" =>
            ComparedAs(registry[last.args[1][2]] = registry[last.args[2][2]])

\* C12 amended (SpecSame): the same, but two proxies of different tables
\* compare unequal only when neither table has an __eq metamethod; when one
\* has, the host's == gives what the metamethod gives (for a "set": whether
\* the two tables hold the same keys).
C12_SameTableUnlessEqMetamethod ==
    /\ (last.op = "run" /\ last.hasvar /\ last.status = "ok") => DecodedSameTable
    /\ (last.op = "setitem" /\ last.status = "ok") => WriteSeenThroughAll
    /\ last.op = "compare" =>
            LET a == registry[last.args[1][2]]
                b == registry[last.args[2][2]]
            IN  IF a = b THEN ComparedAs(TRUE)
                ELSE IF ~HasSet(L, a) /\ ~HasSet(L, b) THEN ComparedAs(FALSE)
                ELSE ComparedAs(KeySet(L, a) = KeySet(L, b))

\* Two different proxies of one table were compared with == and are equal,
\* while a table built separately exists.
C12_Witness ==
    /\ last.op = "compare"
    /\ last.operator = "Py_EQ"
    /\ last.args[1] # last.args[2]
    /\ registry[last.args[1][2]] = registry[last.args[2][2]]
    /\ last.ret = Value(PyBool(TRUE))

\* The host's w == v for the values that the codec converts, and w is a
\* boolean when v is one: numbers are equal by value (an integer and a float
\* may be equal), every other value is equal to itself only.
EqualValue(w, v) ==
    IF IsNumber(v) THEN IsNumber(w) /\ NumVal(w) = NumVal(v) ELSE w = v

\* The call gave one value that equals v; a float with an integral value in
\* the range of the integers came back as the integer.
CameBack(ret, v) ==
    /\ ret.shape = "value"
    /\ EqualValue(ret.vals[1], v)
    /\ (v[1] = "float" /\ lua_tointeger(v) * 2 = v[2]) => ret.vals[1][1] = "int"

\* C13 (SpecCodec): an integer, float, boolean, text or None that is encoded
\* (into the variable of a run, or into a table) and decoded again (by
\* returning the variable, or by reading the table) comes back as an equal
\* value: a float with an integral value as the integer, a boolean as a boolean.
C13_RoundTrip ==
    /\ (last.op = "run" /\ last.hasvar) =>
            last.status = "ok" /\ CameBack(last.ret, last.value)
    /\ (last.op = "setitem" /\ last.status = "ok" /\ last.value # PyNone) =>
            CameBack(Table_getitem(L, last.self, last.key).ret, last.value)

\* The Lua value of a host operand.
Encoded(v) == ValueAt(Lua_push(L, v), -1)

\* The Lua expression  a op b : a > b is b < a and a >= b is b <= a, a ~= b is
\* not (a == b).  Gives [ok, value].
LuaCompare(a, b, op) ==
    CASE op = "Py_EQ" -> [ok |-> TRUE, value |-> LuaEq(L, a, b)]
      [] op = "Py_NE" -> [ok |-> TRUE, value |-> ~LuaEq(L, a, b)]
      [] op = "Py_LT" -> [ok |-> LuaLess(L, a, b, TRUE).ok,
                          value |-> LuaLess(L, a, b, TRUE).value]
      [] op = "Py_LE" -> [ok |-> LuaLess(L, a, b, FALSE).ok,
                          value |-> LuaLess(L, a, b, FALSE).value]
      [] op = "Py_GT" -> [ok |-> LuaLess(L, b, a, TRUE).ok,
                          value |-> LuaLess(L, b, a, TRUE).value]
      [] op = "Py_GE" -> [ok |-> LuaLess(L, b, a, FALSE).ok,
                          value |-> LuaLess(L, b, a, FALSE).value]

\* C14 (SpecCompare): the host's comparison  v op w  with a table among v and w
\* gives the truth value of the Lua expression  v op w  on the encoded
\* operands, and fails with RuntimeError when that expression raises an error.
C14_ComparesAsLua ==
    last.op = "compare" =>
        LET r == LuaCompare(Encoded(last.args[1]), Encoded(last.args[2]), last.operator)
        IN  IF r.ok THEN last.status = "ok" /\ last.ret = Value(PyBool(r.value))
            ELSE last.status = "RuntimeError"

\* C15 (SpecArith): a binary operator of the host with a table among its
\* operands calls the Lua function cached for the operator with the two
\* operands, encoded, in source order.
C15_OperandsInSourceOrder ==
    last.op = "binary" =>
        last.frame = <<lua_operator(last.operator),
                       Encoded(last.args[1]), Encoded(last.args[2])>>

\* An operator was applied with the table on the right and gave the result of
\* the table's metamethod, which is the left operand.
C15_Witness ==
    /\ last.op = "binary"
    /\ ~IsTable(last.args[1])
    /\ IsTable(last.args[2])
    /\ last.status = "ok"
    /\ last.ret = Value(last.args[1])

---------------------------------------------------------------------------
(* Scripts that work on a host object: the host hands the object over as   *)
(* the global x and the script calls it, indexes it, assigns to it, adds   *)
(* to it or compares it; each of these runs metamethod.                    *)

HostTargets == {PyObj(o) : o \in HostObjs} \cup {PyInt(5)}

\* x = value and a script that calls x, that reads or writes x[key], or that
\* applies an operator to x; or a script that works on the x of an earlier run.
NextHost ==
    \/ \E code \in ChunksOf({"hcall"}), value \in HostTargets :
            Run(code, TRUE, value, FALSE)
    \/ \E code \in ChunksOf({"hget", "hset"}), value \in HostTargets :
            Run(code, TRUE, value, FALSE)
    \/ \E code \in ChunksOf({"hadd", "hlt"}), value \in HostTargets :
            Run(code, TRUE, value, FALSE)
    \/ \E code \in ChunksOf({"hcall", "hget", "hset", "hadd", "hlt"}) :
            Run(code, FALSE, PyNone, FALSE)

SpecHost == Init /\ [][NextHost]_vars

\* The host object that the global x wraps.
XTarget == userdata[globals.x[2]].target

\* The last call ran a script of one of the kinds on a wrapped host object.
RanOnObject(kinds) ==
    /\ last.op = "run"
    /\ Chunks[last.code].kind \in kinds
    /\ globals.x[1] = "userdata"

\* The arguments of the script's call, as the host sees them.
HostArguments ==
    IF Chunks[last.code].v = 1 THEN <<PyInt(LLONG_MAX)>>
    ELSE [i \in 1..Chunks[last.code].n |-> PyInt(10 * i)]

\* C16 (SpecHost): when a script calls a host callable with n arguments, the
\* host callable is invoked exactly once, with the n decoded arguments in
\* order; when it succeeds the script receives exactly one value, the encoding
\* of the callable's result.
C16_HostCallableInvokedOnce ==
    RanOnObject({"hcall"}) =>
        /\ last.calls = <<<<"PyObject_CallObject", XTarget, HostArguments>>>>
        /\ PyObject_CallObject(XTarget[2], HostArguments).ok =>
                last.rets = <<Encoded(PyObject_CallObject(XTarget[2],
                                                         HostArguments).value)>>

\* f(x) = x + 1 was called from a script with 10 and the script received 11.
C16_Witness ==
    /\ RanOnObject({"hcall"})
    /\ XTarget = PyObj(3)
    /\ last.calls = <<<<"PyObject_CallObject", PyObj(3), <<PyInt(10)>>>>>>
    /\ last.status = "ok"
    /\ last.rets = <<LInt(11)>>

\* The key and the value of the script's x[key], as the host sees them.
HostKey == Lua_to_python(PushValue(L, ScriptKeys[Chunks[last.code].n]), -1).ret
HostValue == Lua_to_python(PushValue(L, ScriptValue), -1).ret

\* The key is a text name that does not begin with an underscore.
PublicName(key) ==
    /\ key[1] = "str"
    /\ Utf8(Texts[key[2]]) # <<>>
    /\ Head(Utf8(Texts[key[2]])) # "_"

\* C17 (SpecHost): for x[key] and x[key] = value on a host object the script
\* reaches item subscription first; attribute access (for the read) or
\* attribute assignment (for the write) follows when the subscription fails and
\* the key is a text name that does not begin with an underscore, and only
\* then: a key that begins with an underscore reaches neither.
C17_ItemThenAttribute ==
    /\ RanOnObject({"hget"}) =>
            last.calls =
                IF PyObject_GetItem(L, XTarget[2], HostKey).ok \/ ~PublicName(HostKey)
                THEN <<<<"PyObject_GetItem", XTarget, HostKey>>>>
                ELSE <<<<"PyObject_GetItem", XTarget, HostKey>>,
                       <<"PyObject_GetAttr", XTarget, HostKey>>>>
    /\ RanOnObject({"hset"}) =>
            last.calls =
                IF PyObject_SetItem(L, XTarget[2], HostKey, HostValue).ok
                        \/ ~PublicName(HostKey)
                THEN <<<<"PyObject_SetItem", XTarget, HostKey, HostValue>>>>
                ELSE <<<<"PyObject_SetItem", XTarget, HostKey, HostValue>>,
                       <<"PyObject_SetAttr", XTarget, HostKey, HostValue>>>>

\* The host-side handler of the operator that the script applied to x failed.
HandlerFailed ==
    LET kind == Chunks[last.code].kind
    IN  CASE kind = "hcall" -> ~PyObject_CallObject(XTarget[2], HostArguments).ok
          [] kind = "hget" ->
                /\ ~PyObject_GetItem(L, XTarget[2], HostKey).ok
                /\ ~(PublicName(HostKey) /\ PyObject_GetAttr(L, XTarget[2], HostKey).ok)
          [] kind = "hset" -> ~PyObject_SetItem(L, XTarget[2], HostKey, HostValue).ok
          [] kind = "hadd" -> ~python_binary("ADD", XTarget, HostValue).ok
          [] OTHER -> TRUE

\* What a script returns when its operator gave it no result.
NoResult ==
    LET kind == Chunks[last.code].kind
    IN  CASE kind \in {"hcall", "hset"} -> <<>>
          [] kind = "hlt" -> <<LBool(FALSE)>>
          [] OTHER -> <<Nil>>

\* C18 (SpecHost): when the host-side handler of an operator that a script
\* applied to a host object fails, the host's error is cleared and the script
\* receives no result: the run does not fail and no error is left pending.
C18_DispatchFailureSwallowed ==
    (RanOnObject({"hcall", "hget", "hset", "hadd", "hlt"}) /\ HandlerFailed) =>
        /\ last.status = "ok"
        /\ last.text = ""
        /\ last.rets = NoResult

---------------------------------------------------------------------------
(* The flags of Lua(): an Environment is built with any flags, and scripts *)
(* call the functions of the libraries.                                    *)

NextLibs == \E code \in ChunksOf({"libcall"}) : Run(code, FALSE, PyNone, FALSE)

SpecLibs == (\E flags \in [FlagNames -> BOOLEAN] : Constructed(flags)) /\ [][NextLibs]_vars

\* The library functions that a script can reach from the global names.
Reachable ==
    LET env == globals.env
        values == {env.debug, env.io, env.os, env.loadfile, env.dofile,
                   env.package.loadlib, env.package.searchers,
                   env.package.loaded.debug, env.package.loaded.io,
                   env.package.loaded.os}
    IN  UNION {v[2] : v \in {w \in values : w[1] = "library"}}
            \cup {v[2] : v \in {w \in values : w[1] = "cfunction"}}

\* The library functions that a flag is about, and the names they are bound at.
Guarded(flag) ==
    CASE flag = "debug" -> luaL_openlibs.debug[2]
      [] flag = "loadlib" -> {"package.loadlib"}
      [] flag = "searchers" -> luaL_openlibs.package.searchers[2]
      [] flag = "doloadfile" -> {"loadfile", "dofile"}
      [] flag = "io" -> luaL_openlibs.io[2]
      [] flag = "os" -> luaL_openlibs.os[2] \ OsKept

Intact(flag) ==
    LET env == globals.env
        all == luaL_openlibs
    IN  CASE flag = "debug" -> env.debug = all.debug
                                    /\ env.package.loaded.debug = all.package.loaded.debug
          [] flag = "loadlib" -> env.package.loadlib = all.package.loadlib
          [] flag = "searchers" -> env.package.searchers = all.package.searchers
          [] flag = "doloadfile" -> env.loadfile = all.loadfile /\ env.dofile = all.dofile
          [] flag = "io" -> env.io = all.io /\ env.package.loaded.io = all.package.loaded.io
          [] flag = "os" -> env.os = all.os /\ env.package.loaded.os = all.package.loaded.os

\* C19 (SpecLibs): whatever the flags of Lua(), from construction on no script
\* can reach a function of a flag that is false (the debug library,
\* package.loadlib, the entries of package.searchers, loadfile and dofile, the
\* io library, the members of os other than clock, date, difftime, setlocale and
\* time, which stay), and the bindings of a flag that is true are as the
\* libraries made them, whatever the other flags; with all these flags false a
\* script that calls os.execute fails with RuntimeError.
C19_FlagsRemoveBindings ==
    /\ \A flag \in FlagNames \ {"python_module"} :
            IF globals.flags[flag] THEN Intact(flag)
            ELSE Guarded(flag) \cap Reachable = {}
    /\ OsKept \subseteq Reachable
    /\ \A k \in DOMAIN LibCalls :
            (/\ last.op = "run"
             /\ last.code \in ChunksOf({"libcall"})
             /\ Chunks[last.code].n = k
             /\ LibCalls[k].member = "os.execute"
             /\ ~globals.flags.os)
            => last.status = "RuntimeError"

\* With every flag false a script called os.execute and failed.
C19_Witness ==
    /\ \A flag \in FlagNames : ~globals.flags[flag]
    /\ last.op = "run"
    /\ last.code \in ChunksOf({"libcall"})
    /\ LibCalls[Chunks[last.code].n] = [at |-> <<"os">>, member |-> "os.execute"]
    /\ last.status = "RuntimeError"
    /\ last.text = "attempt to call a nil value"

---------------------------------------------------------------------------
(* Modules of the host: the host registers a dict or an object as the      *)
(* module mod, scripts add to the dict, and scripts require the module.    *)

\* lua.module("mod", obj)
Module(o) ==
    /\ Len(tables) < MaxRefs
    /\ Return([NoCall EXCEPT !.op = "module", !.self = o],
              [S |-> lua_load_module(L, "mod", o), ret |-> Value(PyNone)])
    /\ UNCHANGED iters

NextModule ==
    \/ \E o \in {4, 5} : Module(o)
    \/ \E code \in ChunksOf({"hset"}) : Run(code, TRUE, PyObj(4), FALSE)
    \/ \E code \in ChunksOf({"require", "hset"}) : Run(code, FALSE, PyNone, FALSE)

SpecModule == Init /\ [][NextModule]_vars

\* The pairs of the host object o: the items of the dict; the attributes of
\* another object whose name does not begin with an underscore and, under the
\* name without its first four bytes, those whose name begins with _lua_.
PairsOf(o) ==
    LET name(a) == LET bytes == Utf8(a)
                   IN  IF Len(bytes) >= 5 /\ SubSeq(bytes, 1, 5) = <<"_", "l", "u", "a", "_">>
                       THEN SubSeq(bytes, 5, Len(bytes))
                       ELSE bytes
        public(a) == Utf8(a) = <<>> \/ Head(Utf8(a)) # "_" \/ name(a) # Utf8(a)
    IN  IF o = 4 THEN {<<k, heap[o].items[k]>> : k \in DOMAIN heap[o].items}
        ELSE {<<PyStr(CHOOSE i \in DOMAIN Texts : Utf8(Texts[i]) = name(a)),
                heap[o].attrs[a]>> : a \in {b \in DOMAIN heap[o].attrs : public(b)}}

\* The pairs of the table that require("mod") yields, as the host sees them.
RequiredPairs ==
    LET data == tables[globals.env.package.loaded.mod[2]].data
    IN  {<<Lua_to_python(PushValue(L, k), -1).ret,
           Lua_to_python(PushValue(L, data[k]), -1).ret>> : k \in DOMAIN data}

\* C20 (SpecModule): once module("mod", obj) has returned, the table that
\* require("mod") yields holds exactly the pairs that obj had when it was
\* registered, and nothing that the object gets later changes that table.
C20_ModuleSnapshot ==
    [][/\ last'.op = "module" =>
            /\ ~aborted'
            /\ globals'.env.package.loaded.mod[1] = "table"
            /\ RequiredPairs' = PairsOf(last'.self)
       /\ (last'.op # "module" /\ globals.env.package.loaded.mod # Nil) =>
            /\ globals'.env.package.loaded.mod = globals.env.package.loaded.mod
            /\ RequiredPairs' = RequiredPairs]_vars

---------------------------------------------------------------------------
(* Two instances: the host hands proxies that another instance made to     *)
(* this one (README.md, "combining Lua variables from different            *)
(* instances").                                                            *)

\* A proxy made by the other instance: its id is a reference of that
\* instance's registry.  The other instance pins its references the same way,
\* so its ids are the small numbers too.
Foreign(type, id) == <<type, id, "other">>
ForeignProxies == {Foreign(type, id) : type \in {"Table", "Function"}, id \in 1..MaxRefs}
OwnProxies == {PyTable(r) : r \in TableRefs} \cup {<<"Function", r>> : r \in FunctionRefs}

NextForeign ==
    \/ NewTable
    \/ \E code \in ChunksOf({"mkecho"}) : Run(code, FALSE, PyNone, FALSE)
    \/ \E self \in TableRefs, value \in {PyInt(10), NoValue} :
            SetItem(self, PyInt(1), value)
    \/ \E value \in ForeignProxies \cup OwnProxies :
            Run(ChunkId("getx"), TRUE, value, FALSE)
    \/ \E code \in ChunksOf({"getx", "xset"}) : Run(code, FALSE, PyNone, FALSE)
    \/ \E self \in TableRefs : GetItem(self, PyInt(1))

SpecForeign == Init /\ [][NextForeign]_vars

\* The step is a run that assigned a proxy to x.
AssignsProxy ==
    /\ last'.op = "run" /\ last'.hasvar
    /\ last'.value[1] \in {"Table", "Function"}

---------------------------------------------------------------------------
(* The references that metamethod takes to its operands: every             *)
(* Lua_to_python gives the callback a new reference, which it has to give  *)
(* back before it returns.                                                 *)

NextRefs ==
    \/ \E code \in ChunksOf({"hcall", "hget", "hset"}), value \in HostTargets :
            Run(code, TRUE, value, FALSE)
    \/ \E code \in ChunksOf({"hadd", "hlt", "hneg"}), value \in HostTargets :
            Run(code, TRUE, value, FALSE)
    \/ \E code \in ChunksOf({"hcall", "hget", "hset", "hadd", "hlt", "hneg"}) :
            Run(code, FALSE, PyNone, FALSE)

SpecRefs == Init /\ [][NextRefs]_vars

\* The places of the event <<what, i>> in the events of the last call.
RefEvents(what, i) == {k \in DOMAIN last.refs : last.refs[k] = <<what, i>>}

\* The operands that the last callback decoded.
DecodedOperands == {last.refs[k][2] : k \in DOMAIN last.refs}

\* C29 (SpecRefs): when the callback behind a metamethod returns to the
\* script, on whichever path, it has given back exactly the references that
\* decoding its operands gave it, and it has handed no operand to the host
\* after giving the operand's reference back.
C29_OperandReferencesBalanced ==
    (last.op = "run" /\ last.status # "abort") =>
        \A i \in DecodedOperands :
            /\ Cardinality(RefEvents("Py_DECREF", i))
                  = Cardinality(RefEvents("Lua_to_python", i))
            /\ \A d \in RefEvents("Py_DECREF", i), u \in RefEvents("use", i) : u < d

---------------------------------------------------------------------------
(* Lifetimes.  The host frees an object when its last reference goes      *)
(* (Py_DECREF runs tp_dealloc at once); its cycle collector looks at the   *)
(* tracked objects only, takes the references that tp_traverse reports     *)
(* from each object's count, and calls tp_clear on the objects that no     *)
(* object outside the set reaches.  Lua finalizes a userdata once, after   *)
(* it has become unreachable, by calling gc.                               *)

\* The records of the list, from first_userdata along next.
RECURSIVE ListFrom(_, _, _)
ListFrom(S, u, seen) ==
    IF u = 0 \/ u \in {seen[i] : i \in DOMAIN seen} THEN seen
    ELSE ListFrom(S, S.userdata[u].next, Append(seen, u))

Listed(S) == ListFrom(S, S.first_userdata, <<>>)

\* del_userdata that takes the record out of the list without mending the
\* prev pointer of the record behind it.  C27 must not hold of it.
del_userdata_half(S, u) ==
    LET data == S.userdata[u]
        S1 == [S EXCEPT !.userdata[u].target = NoValue,
                        !.mem.released =
                            Append(@, [record |-> u,
                                       listed |-> u \in {Listed(S)[i] : i \in DOMAIN Listed(S)}])]
        S2 == IF data.prev # 0 THEN [S1 EXCEPT !.userdata[data.prev].next = data.next]
              ELSE [S1 EXCEPT !.first_userdata = data.next]
    IN  IF data.target = NoValue THEN Panic(S)
        ELSE [S2 EXCEPT !.userdata[u].prev = 0, !.userdata[u].next = 0]

\* del_userdata: Py_DECREF(data->target) and data->target = NULL, and then the
\* record is taken out of the list.  released notes, for each reference that
\* is given back, whether the record was in the list at that moment: the
\* destructor of the target runs inside Py_DECREF.  Py_DECREF(NULL) reads
\* through a null pointer.
del_userdata(S, u) ==
    LET data == S.userdata[u]
        S1 == [S EXCEPT !.userdata[u].target = NoValue,
                        !.mem.released =
                            Append(@, [record |-> u,
                                       listed |-> u \in {Listed(S)[i] : i \in DOMAIN Listed(S)}])]
        S2 == IF data.prev # 0 THEN [S1 EXCEPT !.userdata[data.prev].next = data.next]
              ELSE [S1 EXCEPT !.first_userdata = data.next]
        S3 == IF data.next # 0 THEN [S2 EXCEPT !.userdata[data.next].prev = data.prev]
              ELSE S2
    IN  IF data.target = NoValue THEN Panic(S)
        ELSE [S3 EXCEPT !.userdata[u].prev = 0, !.userdata[u].next = 0]

\* gc: the __gc metamethod of a userdata.
gc(S, u) == del_userdata(S, u)

\* Lua_clear: Py_CLEAR(data->target) for every record of the list; the records
\* stay in the list.
RECURSIVE ClearTargets(_, _)
ClearTargets(S, us) ==
    IF us = <<>> THEN S
    ELSE ClearTargets(
             IF S.userdata[Head(us)].target = NoValue THEN S
             ELSE [S EXCEPT !.userdata[Head(us)].target = NoValue,
                            !.mem.released =
                                Append(@, [record |-> Head(us), listed |-> TRUE])],
             Tail(us))

Lua_clear(S) == ClearTargets(S, Listed(S))

\* Lua_traverse: the objects that the Lua object reports to the collector are
\* the targets of the records of its list.  lua_operator is not among them.
Lua_traverse(S) == {S.userdata[Listed(S)[i]].target : i \in DOMAIN Listed(S)}

\* lua_close: Lua calls the finalizer of every userdata that it has not
\* finalized, the newest first, and frees the state with its registry.  lost
\* notes the references that the Lua object and its operators still held.
RECURSIVE FinalizeAll(_, _)
FinalizeAll(S, u) ==
    IF u = 0 THEN S
    ELSE FinalizeAll(IF u \in S.mem.finalized THEN S
                     ELSE [gc(S, u) EXCEPT !.mem.finalized = @ \cup {u}],
                     u - 1)

lua_close(S) ==
    [FinalizeAll(S, Len(S.userdata)) EXCEPT
        !.stack = <<>>,
        !.mem.lua.state = "closed",
        !.mem.lua.lost =
            S.mem.lua.refs
                \cup {S.mem.lua_operator[k].id :
                         k \in {j \in DOMAIN S.mem.lua_operator :
                                   S.mem.lua_operator[j].state = "live"}}]

\* Lua_dealloc: lua_close(self->state), PyObject_GC_UnTrack, Lua_clear, tp_free.
Lua_dealloc(S) ==
    [Lua_clear(lua_close(S)) EXCEPT !.mem.lua.freed = TRUE]

\* Py_DECREF(self->lua): the Lua object is deallocated when its count drops to
\* zero.
Py_DECREF_lua(S) ==
    LET S1 == [S EXCEPT !.mem.lua.ob_refcnt = @ - 1]
    IN  IF S1.mem.lua.ob_refcnt = 0 THEN Lua_dealloc(S1) ELSE S1

\* Table_dealloc, Function_dealloc: luaL_unref(self->lua->state,
\* LUA_REGISTRYINDEX, self->id), Py_DECREF(self->lua), and the object is
\* freed.  self->lua->state reads through self->lua: the process dies when
\* the pointer is NULL, and when the Lua object is gone.
Table_dealloc(S, p) ==
    LET self == S.mem.objects[p]
        S1 == [luaL_unref(S, self.id) EXCEPT !.mem.objects[p].unrefs = @ + 1]
    IN  IF self.lua = 0 \/ S.mem.lua.freed THEN Panic(S)
        ELSE [Py_DECREF_lua(S1) EXCEPT !.mem.objects[p].state = "freed"]

Function_dealloc(S, p) ==
    LET self == S.mem.objects[p]
        S1 == [luaL_unref([S EXCEPT !.mem.objects[p].tracked = FALSE], self.id)
                  EXCEPT !.mem.objects[p].unrefs = @ + 1]
    IN  IF self.lua = 0 \/ S.mem.lua.freed THEN Panic(S)
        ELSE [Py_DECREF_lua(S1) EXCEPT !.mem.objects[p].state = "freed"]

\* Py_DECREF of a proxy: tp_dealloc when its count drops to zero.
Py_DECREF_proxy(S, p) ==
    LET S1 == [S EXCEPT !.mem.objects[p].ob_refcnt = @ - 1]
    IN  IF S1.mem.objects[p].ob_refcnt > 0 THEN S1
        ELSE IF S1.mem.objects[p].type = "Table" THEN Table_dealloc(S1, p)
        ELSE Function_dealloc(S1, p)

\* table_traverse, function_traverse: the managed dict, and self->lua.
function_traverse(S, p) ==
    (IF S.mem.objects[p].dict THEN {p} ELSE {})
        \cup (IF S.mem.objects[p].lua # 0 THEN {0} ELSE {})

\* table_clear, function_clear: PyObject_ClearManagedDict and Py_CLEAR(lua).
\* The caller holds a reference to the object.
function_clear(S, p) ==
    LET self == S.mem.objects[p]
        S1 == IF self.dict
              THEN [S EXCEPT !.mem.objects[p].dict = FALSE,
                             !.mem.objects[p].ob_refcnt = @ - 1]
              ELSE S
    IN  IF self.lua = 0 THEN S1
        ELSE Py_DECREF_lua([S1 EXCEPT !.mem.objects[p].lua = 0])

\* The objects that the host's collector looks at: 0 is the Lua object, p > 0
\* the proxy objects[p], -k the Function lua_operator[k].  Table_create never
\* tracks its object.
Tracked(S) ==
    (IF S.mem.lua.freed THEN {} ELSE {0})
        \cup {p \in DOMAIN S.mem.objects :
                 S.mem.objects[p].tracked /\ S.mem.objects[p].state = "live"}
        \cup {-k : k \in DOMAIN S.mem.lua_operator}

\* tp_traverse of a tracked object: the tracked objects it reports.
Referents(S, n) ==
    IF n = 0 THEN {}       \* Lua_traverse reports targets of userdata only
    ELSE IF n > 0 THEN function_traverse(S, n)
    ELSE IF S.mem.lua_operator[-n].lua # 0 THEN {0} ELSE {}

\* ob_refcnt
RefCount(S, n) ==
    IF n = 0 THEN S.mem.lua.ob_refcnt
    ELSE IF n > 0 THEN S.mem.objects[n].ob_refcnt
    ELSE S.mem.lua_operator[-n].ob_refcnt

\* The collector's verdict: an object whose count exceeds the references that
\* tracked objects report to it is held from outside; what such objects
\* reach is alive, the rest is garbage.
RECURSIVE ReachedFrom(_, _)
ReachedFrom(S, objs) ==
    LET more == objs \cup UNION {Referents(S, n) \cap Tracked(S) : n \in objs}
    IN  IF more = objs THEN objs ELSE ReachedFrom(S, more)

Garbage(S) ==
    LET held(n) == RefCount(S, n)
                      > Cardinality({m \in Tracked(S) : n \in Referents(S, m)})
    IN  Tracked(S) \ ReachedFrom(S, {n \in Tracked(S) : held(n)})

\* The collector on the garbage object n: it takes a reference, calls
\* tp_clear, and gives its reference back.
Cleared(S, n) ==
    IF n = 0
    THEN Py_DECREF_lua(Lua_clear([S EXCEPT !.mem.lua.ob_refcnt = @ + 1]))
    ELSE Py_DECREF_proxy(
             function_clear([S EXCEPT !.mem.objects[n].ob_refcnt = @ + 1], n), n)

\* The proxies that variables of the host refer to.
HeldProxies == {p \in DOMAIN mem.objects :
                   mem.objects[p].held /\ mem.objects[p].state = "live"}
HeldOf(type) == {mem.objects[p].id : p \in {q \in HeldProxies : mem.objects[q].type = type}}

\* A step of the host that is no call of the module: del, an assignment to
\* an attribute, a run of the collector.
HostStep(op, self, S) ==
    /\ Returned([NoCall EXCEPT !.op = op, !.self = self], [S |-> S, ret |-> Value(PyNone)])
    /\ UNCHANGED iters

\* del of the variable that holds the proxy
Drop(p) == HostStep("drop", p, Py_DECREF_proxy([L EXCEPT !.mem.objects[p].held = FALSE], p))

\* proxy.me = proxy
Tie(p) ==
    /\ ~mem.objects[p].dict
    /\ HostStep("tie", p, [L EXCEPT !.mem.objects[p].dict = TRUE,
                                    !.mem.objects[p].ob_refcnt = @ + 1])

\* del of the variable that holds the Lua object
DropLua ==
    /\ mem.lua.held
    /\ HostStep("droplua", 0, Py_DECREF_lua([L EXCEPT !.mem.lua.held = FALSE]))

\* gc.collect(), or a collection that the host starts by itself
Collect(n) == HostStep("collect", n, Cleared(L, n))

\* A run that the host makes on the Lua object it holds, with a proxy it holds
\* for the value; at most MaxProxies proxies are ever made.
LifeRun(code, hasvar, value) ==
    /\ mem.lua.held
    /\ Run(code, hasvar, value, FALSE)
    /\ Len(mem'.objects) <= MaxProxies

NextLife ==
    \/ \E kind \in {"newtable", "mkecho"} : LifeRun(ChunkId(kind), FALSE, PyNone)
    \/ \E r \in HeldOf("Table") : LifeRun(ChunkId("getx"), TRUE, PyTable(r))
    \/ \E r \in HeldOf("Function") : LifeRun(ChunkId("getx"), TRUE, PyFunction(r))
    \/ \E p \in HeldProxies : Drop(p)
    \/ \E p \in HeldProxies : Tie(p)
    \/ DropLua
    \/ \E n \in Garbage(L) : Collect(n)

SpecLife == Init /\ [][NextLife]_vars

\* The proxies that have not been freed: each holds its reference.
LiveProxies == {p \in DOMAIN mem.objects : mem.objects[p].state = "live"}

\* C22 (SpecLife): no two proxies that have not been freed hold the same
\* reference, the Functions of the operators included; every decoding of a
\* table or function pins a reference of its own, also when the value has a
\* proxy already.
C22_ReferencesDistinct ==
    /\ \A p, q \in LiveProxies : p # q => mem.objects[p].id # mem.objects[q].id
    /\ \A p \in LiveProxies, k \in DOMAIN mem.lua_operator :
            mem.objects[p].id # mem.lua_operator[k].id
    /\ \A p \in LiveProxies : registry[mem.objects[p].id][1] \in {"table", "function"}

\* Two proxies of one table are alive, and one of them holds a reference that
\* a proxy freed before it had held.
C22_Witness ==
    \E p, q \in LiveProxies :
        /\ p # q
        /\ registry[mem.objects[p].id] = registry[mem.objects[q].id]
        /\ \E r \in DOMAIN mem.objects :
              mem.objects[r].state = "freed" /\ mem.objects[r].id = mem.objects[p].id

\* C23 (SpecLife): a proxy gives its reference back exactly once, when it is
\* destroyed, and its destructor completes without reading through a missing
\* Lua object, also when the collector has called its tp_clear first.
C23_DestructorCompletes ==
    /\ last.op \in {"drop", "collect"} => last.status = "ok"
    /\ \A p \in DOMAIN mem.objects :
          mem.objects[p].unrefs = IF mem.objects[p].state = "freed" THEN 1 ELSE 0

\* C24 (SpecLife): as long as a proxy holds a reference that has not been
\* given back, the Lua object has not been freed and its state is open,
\* whatever the host has dropped and the collector has cleared.
C24_LuaOutlivesProxies ==
    (LiveProxies # {}
        \/ \E k \in DOMAIN mem.lua_operator : mem.lua_operator[k].state = "live")
    => (mem.lua.state = "open" /\ ~mem.lua.freed)

\* The host has dropped the Lua object and still holds a proxy.
C24_Witness ==
    /\ ~mem.lua.held
    /\ \E p \in HeldProxies : registry[mem.objects[p].id][1] = "table"
    /\ ~aborted

C30_DestroyedWhenDropped ==
    (/\ ~aborted
     /\ ~mem.lua.held
     /\ \A p \in DOMAIN mem.objects : mem.objects[p].state = "freed"
     /\ Garbage(L) = {})
    => mem.lua.freed

---------------------------------------------------------------------------
(* The userdata of host objects.  The global wk is a table with weak keys: *)
(* a key does not keep its object alive, and Lua takes the key of an       *)
(* object that it finalizes out of the table only in the collection after  *)
(* the one that ran the finalizer.                                         *)

\* The model's room, with MaxWrappers userdata.
Room(S) ==
    /\ Len(S.stack) <= MaxStack
    /\ Len(S.registry) <= MaxRefs
    /\ Len(S.userdata) <= MaxWrappers

\* run and table[key] = value within that room.
WrapRun(code, hasvar, value) ==
    LET out == Lua_run(L, code, hasvar, value, FALSE)
    IN  /\ out.S.panic \/ Room(out.S)
        /\ Returned([NoCall EXCEPT !.op = "run", !.code = code, !.hasvar = hasvar,
                                   !.value = IF hasvar THEN value ELSE PyNone],
                    out)
        /\ UNCHANGED iters

WrapSetItem(self, key, value) ==
    LET out == Table_setitem(L, self, key, value)
    IN  /\ out.S.panic \/ Room(out.S)
        /\ Returned([NoCall EXCEPT !.op = "setitem", !.self = self, !.key = key,
                                   !.value = value],
                    out)
        /\ UNCHANGED iters

\* The values that a script reaches without the weak table: x, the stack, the
\* registry, and the keys and values of the tables.
StrongValues ==
    {globals.x}
        \cup {stack[i] : i \in DOMAIN stack}
        \cup {registry[r] : r \in DOMAIN registry}
        \cup UNION {DOMAIN tables[t].data \cup {tables[t].data[k] : k \in DOMAIN tables[t].data} :
                       t \in DOMAIN tables}

\* The userdata that a script can still get at.
WithinReach == {u \in DOMAIN userdata : LUserdata(u) \in StrongValues \cup {globals.wk}}

\* Lua's collector finalizes the userdata u, which no strong reference reaches:
\* it calls the __gc metamethod, once for each userdata.
Finalize(u) ==
    /\ u \notin mem.finalized
    /\ LUserdata(u) \notin StrongValues
    /\ HostStep("gc", u, [gc(L, u) EXCEPT !.mem.finalized = @ \cup {u}])

\* A later collection frees the finalized userdata u and takes it out of the
\* table with weak keys.
Reclaim(u) ==
    /\ u \in mem.finalized \ mem.reclaimed
    /\ LUserdata(u) \notin StrongValues
    /\ HostStep("free", u, [L EXCEPT !.mem.reclaimed = @ \cup {u},
                                     !.globals.wk = IF @ = LUserdata(u) THEN Nil ELSE @])

NextWrap ==
    \/ NewTable
    \/ \E value \in {PyObj(2), PyNone} : WrapRun(ChunkId("getx"), TRUE, value)
    \/ \E kind \in {"getx", "weaken", "wknext"} : WrapRun(ChunkId(kind), FALSE, PyNone)
    \/ \E self \in TableRefs, key \in {PyInt(1), PyInt(2)}, value \in {PyObj(2), NoValue} :
            WrapSetItem(self, key, value)
    \/ \E u \in DOMAIN userdata : Finalize(u)
    \/ \E u \in DOMAIN userdata : Reclaim(u)

SpecWrap == Init /\ [][NextWrap]_vars

\* The records that have been given back: those of released.
ReleasesOf(u) == {i \in DOMAIN mem.released : mem.released[i].record = u}

\* C26 (SpecWrap): when a userdata is finalized, its record is out of the list
\* before the reference to its target is given back: no reference has been
\* given back while its record was in the list (the target's destructor,
\* which runs inside the release, would find the record there).
C26_UnlinkedBeforeRelease ==
    \A i \in DOMAIN mem.released : ~mem.released[i].listed

\* C27 (SpecWrap): the list from first_userdata is a doubly-linked list
\* without repetition in which prev mirrors next, and its records are exactly
\* those of the userdata made and not yet finalized.
C27_ListWellFormed ==
    LET list == Listed(L)
    IN  /\ {list[i] : i \in DOMAIN list} = DOMAIN userdata \ mem.finalized
        /\ \A i \in DOMAIN list :
              /\ userdata[list[i]].prev = IF i = 1 THEN 0 ELSE list[i - 1]
              /\ userdata[list[i]].next = IF i = Len(list) THEN 0 ELSE list[i + 1]
        /\ \A u \in mem.finalized : userdata[u].prev = 0 /\ userdata[u].next = 0

\* Of three userdata the one in the middle of the list has been finalized; the
\* other two are in the list.
C27_Witness ==
    /\ Len(userdata) = 3
    /\ mem.finalized = {2}
    /\ Listed(L) = <<3, 1>>

\* C28 (SpecWrap): the reference that a userdata holds to its target is given
\* back once, when the userdata is finalized, and never again; a userdata
\* that a script can still get at has its target, so that decoding it never
\* reads a null target.
C28_TargetHeldWhileReachable ==
    /\ \A u \in DOMAIN userdata :
          Cardinality(ReleasesOf(u)) = IF u \in mem.finalized THEN 1 ELSE 0
    /\ \A u \in WithinReach : userdata[u].target # NoValue
    /\ last.op = "run" => last.status # "abort"

============================================================================
